---- MODULE Spec2Model ----
(***************************************************************************)
(* PC-BASIC video memory codec: the byte matrix (basic/base/bytematrix.py) *)
(* and the video mode catalogue and factory (basic/display/modes.py).      *)
(*                                                                         *)
(* The machines of this module, each with its own specification:           *)
(*   SpecCodec    frompacked / packed applied to drawn inputs              *)
(*   SpecGrid     ByteMatrix objects on a heap of row buffers              *)
(*   SpecResolve  get_mode calls against the module-level tables           *)
(*   SpecMemo     get_mode calls with one earlier call remembered          *)
(* Python semantics are those of the interpreter the sources target        *)
(* (Python 2: chr() gives a one-byte string, zip truncates).               *)
(***************************************************************************)
EXTENDS Integers, Sequences, FiniteSets, TLC

VARIABLES
    \* codec machine: the drawn input, the current value, the calls made
    cin, cur, csteps,
    \* grid machine: row buffers by identity, the ByteMatrix objects held,
    \* the last call and its outcome, whether every call so far returned,
    \* and the number of calls made
    heap, grids, last, clean, nops,
    \* mode catalogue: _MODES, the names of _GRAPHICS_MODES and _TEXT_MODES with
    \* the identity of the dict each holds, and the dict objects by identity
    modes, gmodes, tmodes, dicts,
    \* factory: the drawn arguments, the last call, a remembered earlier call
    \* and the number of calls made since it
    margs, call, kept, since,
    \* width machine: the drawn WIDTH switch and the outcome of its lookups
    tw,
    \* encode machine: the drawn colorswitch and mode_5, the number returned
    enc,
    \* area machine: a text area, its pixel values, the text area of these
    area,
    \* stack machine: two matrices stacked and the slices of the result
    stk,
    \* flat machine: a width, a height, a flat list of bytes and the matrix made
    flat,
    \* video plugin: alive, the video queue and the place in cycle()
    vid

cvars == <<cin, cur, csteps>>

gvars == <<heap, grids, last, clean, nops>>

mvars == <<modes, gmodes, tmodes, dicts, margs, call, kept, since>>

\* the machines of the modules around the catalogue
xvars == <<tw, enc, area, stk, flat, vid>>

\* the same but for one machine
beside_tw == <<enc, area, stk, flat, vid>>

beside_enc == <<tw, area, stk, flat, vid>>

beside_area == <<tw, enc, stk, flat, vid>>

beside_stk == <<tw, enc, area, flat, vid>>

beside_flat == <<tw, enc, area, stk, vid>>

beside_vid == <<tw, enc, area, stk, flat>>

vars == <<cin, cur, csteps, heap, grids, last, clean, nops,
          modes, gmodes, tmodes, dicts, margs, call, kept, since,
          tw, enc, area, stk, flat, vid>>

(***************************************************************************)
(* Bounds of the model                                                     *)
(***************************************************************************)
\* longest packed byte string drawn over the sample alphabet
MaxPackedLen == 2
\* largest height argument drawn for frompacked
MaxHeight == 3
\* most cells of a matrix drawn for packed()
MaxCells == 8
\* ByteMatrix objects held at once
MaxGrids == 2
\* largest width and height of a held ByteMatrix
MaxDim == 2
\* largest cell value written by the grid machine
MaxVal == 1
\* calls made by the grid machine in one run
MaxOps == 3

(***************************************************************************)
(* Python built-ins used by the sources                                    *)
(***************************************************************************)
Byte == 0..255

Pow2(n) == 2^n

Min(a, b) == IF a < b THEN a ELSE b

Max(a, b) == IF a > b THEN a ELSE b

\* seq[lo:hi] with 0-based, half-open, already clipped bounds
SubSeq0(s, lo, hi) == IF hi <= lo THEN <<>> ELSE SubSeq(s, lo + 1, hi)

\* bytearray().join(rows)
RECURSIVE Join(_)
Join(rows) ==
    IF rows = <<>> THEN <<>> ELSE Head(rows) \o Join(Tail(rows))

\* sum(list)
RECURSIVE Sum(_)
Sum(s) == IF s = <<>> THEN 0 ELSE Head(s) + Sum(Tail(s))

\* [s[offs : offs+n] for offs in range(0, len(s), n)], n > 0
Chunks(s, n) ==
    LET cnt == (Len(s) + n - 1) \div n
    IN  [c \in 1..cnt |-> SubSeq0(s, (c - 1) * n, Min(c * n, Len(s)))]

\* the outcome of a call: a value, or the exception it raised
Ok(v) == [status |-> "ok", val |-> v]

Raise(exc) == [status |-> exc, val |-> <<>>]

(***************************************************************************)
(* bytearray functions                                                     *)
(***************************************************************************)
\* shifts = [8 - bpp - _sh for _sh in range(0, 8, bpp)]
unpack_shifts(items_per_byte) ==
    LET bpp == 8 \div items_per_byte
    IN  [i \in 1..items_per_byte |-> 8 - bpp - (i - 1) * bpp]

pack_shifts(items_per_byte) ==
    LET bpp == 8 \div items_per_byte
    IN  [i \in 1..items_per_byte |-> 8 - bpp - (i - 1) * bpp]

unpack_bytes_lsb_first(packed, items_per_byte) ==
    LET bpp == 8 \div items_per_byte
    IN  [n \in 1..(Len(packed) * items_per_byte) |->
            (packed[((n - 1) \div items_per_byte) + 1]
                \div Pow2(((n - 1) % items_per_byte) * bpp)) % Pow2(bpp)]

\* (_byte >> _shift) & mask for _byte in packed for _shift in shifts
unpack_bytes(packed, items_per_byte) ==
    LET bpp    == 8 \div items_per_byte
        shifts == unpack_shifts(items_per_byte)
    IN  [n \in 1..(Len(packed) * items_per_byte) |->
            (packed[((n - 1) \div items_per_byte) + 1]
                \div Pow2(shifts[((n - 1) % items_per_byte) + 1])) % Pow2(bpp)]

pack_bytes_low_shift(unpacked, items_per_byte) ==
    LET bpp          == 8 \div items_per_byte
        packed_width == Len(unpacked) \div items_per_byte
        prepacked    == [n \in 1..Min(Len(unpacked), items_per_byte * packed_width) |->
                            (unpacked[n] % Pow2(bpp))
                                * Pow2(((n - 1) % items_per_byte) * bpp)]
    IN  [j \in 1..Len(Chunks(prepacked, items_per_byte)) |->
            Sum(Chunks(prepacked, items_per_byte)[j])]

\* zip(unpacked, shifts*packed_width) stops at the shorter of the two
pack_bytes(unpacked, items_per_byte) ==
    LET bpp          == 8 \div items_per_byte
        shifts       == pack_shifts(items_per_byte)
        packed_width == Len(unpacked) \div items_per_byte
        prepacked    == [n \in 1..Min(Len(unpacked), items_per_byte * packed_width) |->
                            (unpacked[n] % Pow2(bpp))
                                * Pow2(shifts[((n - 1) % items_per_byte) + 1])]
    IN  [j \in 1..Len(Chunks(prepacked, items_per_byte)) |->
            Sum(Chunks(prepacked, items_per_byte)[j])]

(***************************************************************************)
(* ByteMatrix values: width, height and the list of rows                   *)
(***************************************************************************)
Matrix(w, h, rows) == [width |-> w, height |-> h, rows |-> rows]

\* len(set(len(_r) for _r in data)) == 1
SameLength(data) == \A i, j \in 1..Len(data) : Len(data[i]) = Len(data[j])

\* ByteMatrix._create_from_rows: len(data[0]) raises on an empty list
create_from_rows(data) ==
    IF Len(data) = 0 THEN Raise("IndexError")
    ELSE IF ~SameLength(data) THEN Raise("AssertionError")
    ELSE Ok(Matrix(Len(data[1]), Len(data), data))

\* ByteMatrix.frompacked: range(0, len(unpacked), width) rejects width 0
frompacked(packed, height, items_per_byte) ==
    IF height = 0 THEN Raise("ZeroDivisionError")
    ELSE LET width    == (items_per_byte * Len(packed)) \div height
             unpacked == unpack_bytes(packed, items_per_byte)
         IN  IF width = 0 THEN Raise("ValueError")
             ELSE create_from_rows(Chunks(unpacked, width))

packed_first_row(rows, items_per_byte) ==
    pack_bytes(IF rows = <<>> THEN <<>> ELSE rows[1], items_per_byte)

\* ByteMatrix.packed
packed(rows, items_per_byte) == pack_bytes(Join(rows), items_per_byte)

(***************************************************************************)
(* Codec machine: frompacked and packed applied to a drawn input           *)
(***************************************************************************)
ItemsPerByte == {1, 2, 4, 8}

\* byte values whose sub-values differ at every depth
ByteSample == {0, 27, 165, 255}

SeqsUpTo(S, n) == UNION {[1..m -> S] : m \in 0..n}

PackedInputs == {<<b>> : b \in Byte} \cup SeqsUpTo(ByteSample, MaxPackedLen)

NoMatrix == Matrix(0, 0, <<>>)

\* matrices of w x h cells drawn from S
MatricesOver(S, w, h) == {Matrix(w, h, rows) : rows \in [1..h -> [1..w -> S]]}

\* one full-range chunk, and small matrices over the extreme cell values
MatrixInputs(k) ==
    LET top == Pow2(8 \div k) - 1
    IN  MatricesOver(0..top, k, 1)
        \cup UNION {MatricesOver({0, top}, w, h) :
                        <<w, h>> \in {wh \in (0..MaxCells) \X (0..MaxHeight) :
                                        wh[1] * wh[2] <= MaxCells /\ wh[1] + wh[2] > 0}}

BytesValue(b) == [kind |-> "bytes", bytes |-> b, grid |-> NoMatrix, exc |-> ""]

GridValue(g) == [kind |-> "grid", bytes |-> <<>>, grid |-> g, exc |-> ""]

ErrorValue(e) == [kind |-> "error", bytes |-> <<>>, grid |-> NoMatrix, exc |-> e]

CodecInit ==
    /\ \/ \E S \in PackedInputs, k \in ItemsPerByte, h \in 0..MaxHeight :
            cin = [k |-> k, height |-> h, val |-> BytesValue(S)]
       \/ \E k \in ItemsPerByte : \E G \in MatrixInputs(k) :
            cin = [k |-> k, height |-> G.height, val |-> GridValue(G)]
    /\ cur = cin.val
    /\ csteps = <<>>

\* ByteMatrix.frompacked(cur, height, items_per_byte)
Unpack ==
    /\ cur.kind = "bytes"
    /\ Len(csteps) < 2
    /\ LET r == frompacked(cur.bytes, cin.height, cin.k)
       IN  cur' = IF r.status = "ok" THEN GridValue(r.val) ELSE ErrorValue(r.status)
    /\ csteps' = Append(csteps, "Unpack")
    /\ UNCHANGED cin
    /\ UNCHANGED <<gvars, mvars, xvars>>

\* cur.packed(items_per_byte)
Pack ==
    /\ cur.kind = "grid"
    /\ Len(csteps) < 2
    /\ cur' = BytesValue(packed(cur.grid.rows, cin.k))
    /\ csteps' = Append(csteps, "Pack")
    /\ UNCHANGED cin
    /\ UNCHANGED <<gvars, mvars, xvars>>

(***************************************************************************)
(* Grid machine: ByteMatrix objects over a heap of row buffers             *)
(*                                                                         *)
(* heap maps a buffer identity to its bytes; a ByteMatrix holds its        *)
(* _width, _height and the identities of its _rows, so that two objects    *)
(* holding the same bytearray are visible as such.                         *)
(***************************************************************************)
Slots == 1..MaxGrids

Val == 0..MaxVal

\* a name bound to nothing
NoGrid == [live |-> FALSE, hasrows |-> FALSE, width |-> 0, height |-> 0, rows |-> <<>>]

\* a row of a new object: a bytearray held already (ref) or a new one (ref 0)
Fresh(b) == [ref |-> 0, bytes |-> b]

Held(hp, id) == [ref |-> id, bytes |-> hp[id]]

BytesOf(items) == [i \in 1..Len(items) |-> items[i].bytes]

\* the bytes of the rows of a held object
RowsOf(hp, g) == [i \in 1..Len(g.rows) |-> hp[g.rows[i]]]

RECURSIVE Dedup(_)
Dedup(s) ==
    IF s = <<>> THEN <<>>
    ELSE LET r == Dedup(SubSeq(s, 1, Len(s) - 1))
         IN  IF \E i \in 1..Len(r) : r[i] = s[Len(s)] THEN r ELSE Append(r, s[Len(s)])

\* buffers no object holds are released; identities are numbered in order of
\* first use, so that a state does not depend on allocation order
Canon(gs, hp) ==
    LET d      == Dedup(Join([sl \in Slots |-> gs[sl].rows]))
        pos(id) == CHOOSE i \in 1..Len(d) : d[i] = id
    IN  [grids |-> [sl \in Slots |->
                      [gs[sl] EXCEPT !.rows = [j \in 1..Len(gs[sl].rows) |-> pos(gs[sl].rows[j])]]],
         heap  |-> [i \in 1..Len(d) |-> hp[d[i]]]]

\* bind a new object with the given _width, _height and rows to a name
Bind(gs, hp, dst, w, h, items, hasrows) ==
    LET n    == Len(hp)
        ids  == [i \in 1..Len(items) |-> IF items[i].ref # 0 THEN items[i].ref ELSE n + i]
        hp1  == [id \in 1..(n + Len(items)) |-> IF id <= n THEN hp[id] ELSE items[id - n].bytes]
        gs1  == [gs EXCEPT ![dst] = [live |-> TRUE, hasrows |-> hasrows,
                                     width |-> w, height |-> h, rows |-> ids]]
    IN  Canon(gs1, hp1)

NoIndex == [range |-> FALSE, lo |-> 0, hi |-> 0]

Scalar(i) == [range |-> FALSE, lo |-> i, hi |-> 0]

Slice(lo, hi) == [range |-> TRUE, lo |-> lo, hi |-> hi]

\* slice.indices(n) for a slice with step 1
ClipBound(b, n) == IF b < 0 THEN Max(b + n, 0) ELSE Min(b, n)

\* seq[lo:hi]
SliceSeq(s, ix) == SubSeq0(s, ClipBound(ix.lo, Len(s)), ClipBound(ix.hi, Len(s)))

\* seq[i] raises IndexError outside -n .. n-1
InBounds(i, n) == -n <= i /\ i < n

At(s, i) == IF i < 0 THEN s[i + Len(s) + 1] ELSE s[i + 1]

LastCall(op, status, src, dst, x, y, args, pre, val) ==
    [op |-> op, status |-> status, src |-> src, dst |-> dst, x |-> x, y |-> y,
     args |-> args, pre |-> pre, val |-> val]

\* the free names, lowest first
FreeSlots == {sl \in Slots : ~grids[sl].live /\ \A t \in Slots : t < sl => grids[t].live}

\* a new object is bound to a free name when there is one
DstSlots == IF FreeSlots # {} THEN FreeSlots ELSE Slots

Bounded(gs, hp) ==
    /\ \A sl \in Slots : gs[sl].height <= MaxDim /\ gs[sl].width <= MaxDim
                          /\ Len(gs[sl].rows) <= MaxDim
    /\ \A id \in 1..Len(hp) : Len(hp[id]) <= MaxDim

\* the state after a call that returned a new object, or raised
Returned(op, r, hasrows, src, dst, x, y, args, pre) ==
    IF r.status = "ok"
    THEN LET c == Bind(grids, heap, dst, r.val.width, r.val.height, r.val.rows, hasrows)
         IN  /\ Bounded(c.grids, c.heap)
             /\ grids' = c.grids
             /\ heap' = c.heap
             /\ last' = LastCall(op, "ok", src, dst, x, y, args, pre, 0)
             /\ clean' = clean
    ELSE /\ UNCHANGED <<grids, heap>>
         /\ last' = LastCall(op, r.status, src, 0, x, y, args, pre, 0)
         /\ clean' = FALSE

\* create_from_rows on rows that may be bytearrays held already
create_from_items(items) ==
    LET r == create_from_rows(BytesOf(items))
    IN  IF r.status = "ok" THEN Ok(Matrix(r.val.width, r.val.height, items)) ELSE r

\* the data argument of ByteMatrix(): an int, a list of ints, a list of rows
DataInt(v) == [kind |-> "int", int |-> v, ints |-> <<>>, rows |-> <<>>]

DataInts(s) == [kind |-> "ints", int |-> 0, ints |-> s, rows |-> <<>>]

DataRows(rs) == [kind |-> "rows", int |-> 0, ints |-> <<>>, rows |-> rs]

Repeat(v, n) == [c \in 1..n |-> v]

\* ByteMatrix.__init__; val holds hasrows (False: only _data was set) and the rows
init(width, height, data) ==
    LET n == IF data.kind = "ints" THEN Len(data.ints) ELSE Len(data.rows)
        made(items) == Ok([hasrows |-> TRUE, items |-> items])
    IN  IF width = 0 /\ height = 0 THEN Ok([hasrows |-> FALSE, items |-> <<>>])
        ELSE IF data.kind = "int"
        THEN made([r \in 1..height |-> Fresh(Repeat(data.int, width))])
        ELSE IF n = 1
        THEN IF data.kind = "ints"
             THEN made([r \in 1..height |-> Fresh(Repeat(data.ints[1], width))])
             ELSE Raise("TypeError")
        ELSE IF n = height
        THEN IF n = 0 THEN Raise("IndexError")
             ELSE IF data.kind = "ints" THEN Raise("TypeError")
             ELSE IF Len(data.rows[1]) # width THEN Raise("AssertionError")
             ELSE made([r \in 1..n |-> Fresh(data.rows[r])])
        ELSE IF n # height * width THEN Raise("AssertionError")
        ELSE IF width = 0 THEN Raise("ValueError")
        ELSE IF data.kind = "rows" THEN Raise("TypeError")
        ELSE made([r \in 1..Len(Chunks(data.ints, width)) |->
                        Fresh(Chunks(data.ints, width)[r])])

\* ByteMatrix.__getitem__ with a slice on either axis
getitem(hp, g, x, y) ==
    IF ~g.hasrows THEN Raise("AttributeError")
    ELSE LET rows == RowsOf(hp, g)
             sel  == SliceSeq(rows, y)
         IN  IF y.range
             THEN IF x.range
                  THEN create_from_items([i \in 1..Len(sel) |-> Fresh(SliceSeq(sel[i], x))])
                  ELSE IF \E i \in 1..Len(sel) : ~InBounds(x.lo, Len(sel[i]))
                       THEN Raise("IndexError")
                       ELSE create_from_items(
                                [i \in 1..Len(sel) |-> Fresh(<<At(sel[i], x.lo)>>)])
             ELSE IF ~InBounds(y.lo, Len(rows)) THEN Raise("IndexError")
                  ELSE create_from_items(<<Fresh(SliceSeq(At(rows, y.lo), x))>>)

\* ByteMatrix.__getitem__ with two scalar indices: val is the byte
getbyte(hp, g, x, y) ==
    IF ~g.hasrows THEN Raise("AttributeError")
    ELSE LET rows == RowsOf(hp, g)
         IN  IF ~InBounds(y.lo, Len(rows)) THEN Raise("IndexError")
             ELSE IF ~InBounds(x.lo, Len(At(rows, y.lo))) THEN Raise("IndexError")
             ELSE Ok(<<At(At(rows, y.lo), x.lo)>>)

\* an element of the value of an assignment: an int, a literal row, or a
\* bytearray held by a ByteMatrix (read when it is assigned)
ElemInt(v) == [isrow |-> FALSE, int |-> v, row |-> <<>>, ref |-> 0]

ElemRow(r) == [isrow |-> TRUE, int |-> 0, row |-> r, ref |-> 0]

ElemHeld(id) == [isrow |-> TRUE, int |-> 0, row |-> <<>>, ref |-> id]

ElemBytes(hp, e) == IF e.ref # 0 THEN hp[e.ref] ELSE e.row

\* bytearray.__setitem__: row[x] = elem
assign_row(hp, id, x, e) ==
    LET row == hp[id]
    IN  IF x.range
        THEN IF ~e.isrow THEN Raise("TypeError")
             ELSE LET start == ClipBound(x.lo, Len(row))
                      stop  == Max(start, ClipBound(x.hi, Len(row)))
                  IN  Ok(SubSeq0(row, 0, start) \o ElemBytes(hp, e)
                            \o SubSeq0(row, stop, Len(row)))
        ELSE IF ~InBounds(x.lo, Len(row)) THEN Raise("IndexError")
        ELSE IF e.isrow THEN Raise("TypeError")
        ELSE Ok([row EXCEPT ![IF x.lo < 0 THEN x.lo + Len(row) + 1 ELSE x.lo + 1] = e.int])

\* for _dst, _src in zip(self._rows[y], value): _dst[x] = _src
\* rows assigned before an exception stay assigned
RECURSIVE SetLoop(_, _, _, _, _, _)
SetLoop(hp, ids, elems, x, i, n) ==
    IF i > n THEN [status |-> "ok", heap |-> hp]
    ELSE LET r == assign_row(hp, ids[i], x, elems[i])
         IN  IF r.status # "ok" THEN [status |-> r.status, heap |-> hp]
             ELSE SetLoop([hp EXCEPT ![ids[i]] = r.val], ids, elems, x, i + 1, n)

\* the value of an assignment: an int, a list, or a ByteMatrix
ValueInt(v) == [kind |-> "int", int |-> v, list |-> <<>>, slot |-> 0]

ValueList(es) == [kind |-> "list", int |-> 0, list |-> es, slot |-> 0]

ValueMatrix(sl) == [kind |-> "matrix", int |-> 0, list |-> <<>>, slot |-> sl]

\* ByteMatrix.__setitem__
setitem(gs, hp, g, x, y, value) ==
    LET failed(e) == [status |-> e, heap |-> hp]
        vm    == gs[IF value.kind = "matrix" THEN value.slot ELSE 1]
        elems == IF value.kind = "matrix"
                 THEN [i \in 1..Len(vm.rows) |-> ElemHeld(vm.rows[i])]
                 ELSE value.list
    IN  IF value.kind = "matrix" /\ ~vm.hasrows THEN failed("AttributeError")
        ELSE IF ~g.hasrows THEN failed("AttributeError")
        ELSE IF y.range
        THEN IF value.kind = "int" THEN failed("TypeError")
             ELSE LET ids == SliceSeq(g.rows, y)
                  IN  SetLoop(hp, ids, elems, x, 1, Min(Len(ids), Len(elems)))
        ELSE IF x.range
        THEN IF value.kind = "int" THEN failed("TypeError")
             ELSE IF Len(elems) # 1 THEN failed("AssertionError")
             ELSE IF ~InBounds(y.lo, Len(g.rows)) THEN failed("IndexError")
             ELSE SetLoop(hp, <<At(g.rows, y.lo)>>, elems, x, 1, 1)
        ELSE IF ~InBounds(y.lo, Len(g.rows)) THEN failed("IndexError")
        ELSE SetLoop(hp, <<At(g.rows, y.lo)>>,
                     <<IF value.kind = "int" THEN ElemInt(value.int) ELSE ElemRow(<<>>)>>,
                     x, 1, 1)

\* bytearray.replace(old, new) for one-byte strings
Replace(row, old, new) == [i \in 1..Len(row) |-> IF row[i] = old THEN new ELSE row[i]]

\* ByteMatrix.render: the second replace runs on the result of the first
render(hp, g, back, fore) ==
    IF ~g.hasrows THEN Raise("AttributeError")
    ELSE create_from_items([i \in 1..Len(g.rows) |->
            Fresh(Replace(Replace(hp[g.rows[i]], 0, back), 1, fore))])

\* ByteMatrix.hextend
hextend(hp, g, by_width, fill) ==
    IF ~g.hasrows THEN Raise("AttributeError")
    ELSE create_from_items([i \in 1..Len(g.rows) |->
            Fresh(hp[g.rows[i]] \o Repeat(fill, by_width))])

\* ByteMatrix.vextend: self._rows + [...] keeps the bytearrays of self
vextend(hp, g, by_height, fill) ==
    IF ~g.hasrows THEN Raise("AttributeError")
    ELSE create_from_items([i \in 1..Len(g.rows) |-> Held(hp, g.rows[i])]
            \o [i \in 1..by_height |-> Fresh(Repeat(fill, g.width))])

\* ByteMatrix.hrepeat
hrepeat(hp, g, times) ==
    IF ~g.hasrows THEN Raise("AttributeError")
    ELSE create_from_items([i \in 1..Len(g.rows) |->
            Fresh([n \in 1..(Len(hp[g.rows[i]]) * times) |->
                        hp[g.rows[i]][((n - 1) \div times) + 1]])])

RECURSIVE MinLen(_)
MinLen(lists) ==
    IF Len(lists) = 1 THEN Len(lists[1])
    ELSE Min(Len(Head(lists)), MinLen(Tail(lists)))

\* hstack: zip(*rows) stops at the matrix with the fewest rows
hstack(hp, matrices) ==
    IF \E m \in 1..Len(matrices) : ~matrices[m].hasrows THEN Raise("AttributeError")
    ELSE LET lists == [m \in 1..Len(matrices) |-> RowsOf(hp, matrices[m])]
             n     == IF Len(lists) = 0 THEN 0 ELSE MinLen(lists)
         IN  create_from_items([i \in 1..n |->
                Fresh(Join([m \in 1..Len(lists) |-> lists[m][i]]))])

\* vstack: the rows of the result are the bytearrays of the matrices
vstack(hp, matrices) ==
    IF \E m \in 1..Len(matrices) : ~matrices[m].hasrows THEN Raise("AttributeError")
    ELSE create_from_items(
            Join([m \in 1..Len(matrices) |->
                    [i \in 1..Len(matrices[m].rows) |-> Held(hp, matrices[m].rows[i])]]))

\* ByteMatrix.frompacked, its rows being new bytearrays
frompacked_items(pk, height, items_per_byte) ==
    LET r == frompacked(pk, height, items_per_byte)
    IN  IF r.status = "ok"
        THEN Ok(Matrix(r.val.width, r.val.height,
                       [i \in 1..Len(r.val.rows) |-> Fresh(r.val.rows[i])]))
        ELSE r

(***************************************************************************)
(* Inputs drawn by the grid machine                                        *)
(***************************************************************************)
Ramp(n, start) == [i \in 1..n |-> (start + i - 1) % (MaxVal + 1)]

RowInputs == {Ramp(n, 0) : n \in 0..MaxDim}

DataInputs ==
    {DataInt(v) : v \in Val}
    \cup {DataInts(Ramp(n, 0)) : n \in 0..(MaxDim * MaxDim)}
    \cup {DataRows(rs) : rs \in UNION {[1..m -> RowInputs] : m \in 1..MaxDim}}

\* indices inside and outside a matrix of up to MaxDim rows and columns
IndexInputs ==
    {Scalar(i) : i \in 0..MaxDim}
    \cup {Slice(0, 1), Slice(0, MaxDim), Slice(1, MaxDim), Slice(MaxDim, MaxDim + 1)}

SetIndexInputs == {Scalar(0), Scalar(MaxDim), Slice(0, 1), Slice(0, MaxDim)}

ValueInputs ==
    {ValueInt(v) : v \in Val}
    \cup {ValueMatrix(sl) : sl \in {t \in Slots : grids[t].live}}
    \cup {ValueList(<<ElemRow(r)>>) : r \in {<<>>, <<1>>, <<1, 1>>}}
    \cup {ValueList(<<ElemRow(<<1>>), ElemRow(<<1>>)>>), ValueList(<<ElemInt(1), ElemInt(1)>>)}

Live == {sl \in Slots : grids[sl].live}

SourceLists == UNION {[1..m -> Live] : m \in 0..2}

PreDims(srcs) == [i \in 1..Len(srcs) |-> <<grids[srcs[i]].width, grids[srcs[i]].height>>]

(***************************************************************************)
(* Calls of the grid machine                                               *)
(***************************************************************************)
GridInit ==
    /\ heap = <<>>
    /\ grids = [sl \in Slots |-> NoGrid]
    /\ last = LastCall("none", "ok", <<>>, 0, NoIndex, NoIndex, <<>>, <<>>, 0)
    /\ clean = TRUE
    /\ nops = 0

\* ByteMatrix(width, height, data)
Construct ==
    /\ nops < MaxOps
    /\ \E dst \in FreeSlots, w \in 0..MaxDim, h \in 0..MaxDim, data \in DataInputs :
        LET r == init(w, h, data)
        IN  Returned("Construct",
                     IF r.status = "ok" THEN Ok(Matrix(w, h, r.val.items)) ELSE r,
                     r.status = "ok" /\ r.val.hasrows,
                     <<>>, dst, NoIndex, NoIndex, <<>>, <<>>)
    /\ nops' = nops + 1
    /\ UNCHANGED <<cvars, mvars, xvars>>

\* matrix[x, y]
Get ==
    /\ nops < MaxOps
    /\ \E src \in Live, dst \in DstSlots, x \in IndexInputs, y \in IndexInputs :
        IF x.range \/ y.range
        THEN Returned("Get", getitem(heap, grids[src], x, y), TRUE,
                      <<src>>, dst, x, y, <<>>, PreDims(<<src>>))
        ELSE LET r == getbyte(heap, grids[src], x, y)
             IN  /\ UNCHANGED <<grids, heap>>
                 /\ last' = LastCall("Get", r.status, <<src>>, 0, x, y, <<>>,
                                     PreDims(<<src>>),
                                     IF r.status = "ok" THEN r.val[1] ELSE 0)
                 /\ clean' = (clean /\ r.status = "ok")
    /\ nops' = nops + 1
    /\ UNCHANGED <<cvars, mvars, xvars>>

\* matrix[x, y] = value
Set ==
    /\ nops < MaxOps
    /\ \E dst \in Live, x \in SetIndexInputs, y \in SetIndexInputs, value \in ValueInputs :
        LET r == setitem(grids, heap, grids[dst], x, y, value)
        IN  /\ Bounded(grids, r.heap)
            /\ heap' = r.heap
            /\ last' = LastCall("Set", r.status,
                                IF value.kind = "matrix" THEN <<value.slot>> ELSE <<>>,
                                dst, NoIndex, NoIndex, <<>>, <<>>, 0)
            /\ clean' = (clean /\ r.status = "ok")
    /\ UNCHANGED grids
    /\ nops' = nops + 1
    /\ UNCHANGED <<cvars, mvars, xvars>>

\* matrix.render(back, fore)
Render ==
    /\ nops < MaxOps
    /\ \E src \in Live, dst \in DstSlots, back \in 0..(MaxVal + 1), fore \in 0..(MaxVal + 1) :
        Returned("Render", render(heap, grids[src], back, fore), TRUE,
                 <<src>>, dst, NoIndex, NoIndex, <<back, fore>>, PreDims(<<src>>))
    /\ nops' = nops + 1
    /\ UNCHANGED <<cvars, mvars, xvars>>

\* matrix.hextend(by_width, fill)
HExtend ==
    /\ nops < MaxOps
    /\ \E src \in Live, dst \in DstSlots, by \in 0..MaxDim, fill \in Val :
        Returned("HExtend", hextend(heap, grids[src], by, fill), TRUE,
                 <<src>>, dst, NoIndex, NoIndex, <<>>, PreDims(<<src>>))
    /\ nops' = nops + 1
    /\ UNCHANGED <<cvars, mvars, xvars>>

\* matrix.vextend(by_height, fill)
VExtend ==
    /\ nops < MaxOps
    /\ \E src \in Live, dst \in DstSlots, by \in 0..MaxDim, fill \in Val :
        Returned("VExtend", vextend(heap, grids[src], by, fill), TRUE,
                 <<src>>, dst, NoIndex, NoIndex, <<>>, PreDims(<<src>>))
    /\ nops' = nops + 1
    /\ UNCHANGED <<cvars, mvars, xvars>>

\* matrix.hrepeat(times)
HRepeat ==
    /\ nops < MaxOps
    /\ \E src \in Live, dst \in DstSlots, times \in 0..MaxDim :
        Returned("HRepeat", hrepeat(heap, grids[src], times), TRUE,
                 <<src>>, dst, NoIndex, NoIndex, <<>>, PreDims(<<src>>))
    /\ nops' = nops + 1
    /\ UNCHANGED <<cvars, mvars, xvars>>

\* hstack(matrices)
HStack ==
    /\ nops < MaxOps
    /\ \E srcs \in SourceLists, dst \in DstSlots :
        Returned("HStack", hstack(heap, [m \in 1..Len(srcs) |-> grids[srcs[m]]]), TRUE,
                 srcs, dst, NoIndex, NoIndex, <<>>, PreDims(srcs))
    /\ nops' = nops + 1
    /\ UNCHANGED <<cvars, mvars, xvars>>

\* vstack(matrices)
VStack ==
    /\ nops < MaxOps
    /\ \E srcs \in SourceLists, dst \in DstSlots :
        Returned("VStack", vstack(heap, [m \in 1..Len(srcs) |-> grids[srcs[m]]]), TRUE,
                 srcs, dst, NoIndex, NoIndex, <<>>, PreDims(srcs))
    /\ nops' = nops + 1
    /\ UNCHANGED <<cvars, mvars, xvars>>

\* ByteMatrix.frompacked(packed, height, items_per_byte)
FromPacked ==
    /\ nops < MaxOps
    /\ \E dst \in FreeSlots, n \in 0..MaxDim, h \in 0..MaxDim, k \in {1, 2} :
        Returned("FromPacked", frompacked_items(Ramp(n, 0), h, k), TRUE,
                 <<>>, dst, NoIndex, NoIndex, <<>>, <<>>)
    /\ nops' = nops + 1
    /\ UNCHANGED <<cvars, mvars, xvars>>

GridNext ==
    \/ Construct
    \/ Get
    \/ Set
    \/ Render
    \/ HExtend
    \/ VExtend
    \/ HRepeat
    \/ HStack
    \/ VStack
    \/ FromPacked

(***************************************************************************)
(* The video mode catalogue and factory (display/modes.py)                 *)
(*                                                                         *)
(* The parameter tables hold dict objects: gmodes and tmodes map a mode    *)
(* name to the identity of its dict and dicts maps an identity to the      *)
(* dict, so that two names holding one dict, and a write through either,   *)
(* are representable.                                                      *)
(***************************************************************************)
\* Python's None where a table holds an int otherwise
None == -1

\* _MODES as its literal gives it; a key is <<number>> or <<0, width>>
_MODES_literal ==
    [ cga |->
        ( <<0, 40>> :> "cgatext40"
       @@ <<0, 80>> :> "cgatext80"
       @@ <<1>> :> "320x200x4"
       @@ <<2>> :> "640x200x2" ),
      ega |->
        ( <<0, 40>> :> "egatext40"
       @@ <<0, 80>> :> "egatext80"
       @@ <<1>> :> "320x200x4"
       @@ <<2>> :> "640x200x2"
       @@ <<7>> :> "320x200x16"
       @@ <<8>> :> "640x200x16"
       @@ <<9>> :> "640x350x16" ),
      vga |->
        ( <<0, 40>> :> "vgatext40"
       @@ <<0, 80>> :> "vgatext80"
       @@ <<1>> :> "320x200x4"
       @@ <<2>> :> "640x200x2"
       @@ <<7>> :> "320x200x16"
       @@ <<8>> :> "640x200x16"
       @@ <<9>> :> "640x350x16" ),
      mda |->
        ( <<0, 40>> :> "mdatext40"
       @@ <<0, 80>> :> "mdatext80" ),
      ega_mono |->
        ( <<0, 40>> :> "ega_monotext40"
       @@ <<0, 80>> :> "ega_monotext80"
       @@ <<10>> :> "640x350x4" ),
      hercules |->
        ( <<0, 40>> :> "mdatext40"
       @@ <<0, 80>> :> "mdatext80"
       @@ <<3>> :> "720x348x2" ),
      tandy |->
        ( <<0, 40>> :> "tandytext40"
       @@ <<0, 80>> :> "tandytext80"
       @@ <<1>> :> "320x200x4_8pg"
       @@ <<2>> :> "640x200x2_8pg"
       @@ <<3>> :> "160x200x16"
       @@ <<4>> :> "320x200x4pcjr"
       @@ <<5>> :> "320x200x16pcjr"
       @@ <<6>> :> "640x200x4" ),
      pcjr |->
        ( <<0, 40>> :> "cgatext40"
       @@ <<0, 80>> :> "cgatext80"
       @@ <<1>> :> "320x200x4_8pg"
       @@ <<2>> :> "640x200x2_8pg"
       @@ <<3>> :> "160x200x16"
       @@ <<4>> :> "320x200x4pcjr"
       @@ <<5>> :> "320x200x16pcjr"
       @@ <<6>> :> "640x200x4" ),
      olivetti |->
        ( <<0, 40>> :> "olivettitext40"
       @@ <<0, 80>> :> "olivettitext80"
       @@ <<1>> :> "320x200x4"
       @@ <<2>> :> "640x200x2"
       @@ <<3>> :> "640x400x2" ) ]

\* the dict literal of _GRAPHICS_MODES, by name, and its names in source order
_GRAPHICS_MODES_names ==
    << "320x200x4", "640x200x2", "160x200x16", "320x200x4pcjr",
       "320x200x16pcjr", "640x200x4", "320x200x16", "640x200x16",
       "640x350x16", "640x350x4", "640x400x2", "720x348x2" >>

_GRAPHICS_MODES ==
    ( "320x200x4" :>
        [ width |-> 320, height |-> 200, rows |-> 25, columns |-> 40,
          attr |-> 3, bitsperpixel |-> 2, interleave_times |-> 2,
          bank_size |-> 8192, max_pages |-> 1, cursor_index |-> None,
          layout |-> "CGAMode", colourmap |-> "CGA4ColourMapper" ]
   @@ "640x200x2" :>
        [ width |-> 640, height |-> 200, rows |-> 25, columns |-> 80,
          attr |-> 1, bitsperpixel |-> 1, interleave_times |-> 2,
          bank_size |-> 8192, max_pages |-> 1, cursor_index |-> None,
          layout |-> "CGAMode", colourmap |-> "CGA2ColourMapper" ]
   @@ "160x200x16" :>
        [ width |-> 160, height |-> 200, rows |-> 25, columns |-> 20,
          attr |-> 15, bitsperpixel |-> 4, interleave_times |-> 2,
          bank_size |-> 8192, max_pages |-> 8, cursor_index |-> 3,
          layout |-> "CGAMode", colourmap |-> "CGA16ColourMapper" ]
   @@ "320x200x4pcjr" :>
        [ width |-> 320, height |-> 200, rows |-> 25, columns |-> 40,
          attr |-> 3, bitsperpixel |-> 2, interleave_times |-> 2,
          bank_size |-> 8192, max_pages |-> 8, cursor_index |-> 3,
          layout |-> "CGAMode", colourmap |-> "CGA4ColourMapper" ]
   @@ "320x200x16pcjr" :>
        [ width |-> 320, height |-> 200, rows |-> 25, columns |-> 40,
          attr |-> 15, bitsperpixel |-> 4, interleave_times |-> 4,
          bank_size |-> 8192, max_pages |-> 4, cursor_index |-> 3,
          layout |-> "CGAMode", colourmap |-> "CGA16ColourMapper" ]
   @@ "640x200x4" :>
        [ width |-> 640, height |-> 200, rows |-> 25, columns |-> 80,
          attr |-> 3, bitsperpixel |-> 2, interleave_times |-> 4,
          bank_size |-> 8192, max_pages |-> 4, cursor_index |-> 3,
          layout |-> "Tandy6Mode", colourmap |-> "CGA4ColourMapper" ]
   @@ "320x200x16" :>
        [ width |-> 320, height |-> 200, rows |-> 25, columns |-> 40,
          attr |-> 15, bitsperpixel |-> 4, interleave_times |-> 1,
          bank_size |-> 8192, max_pages |-> None, cursor_index |-> None,
          layout |-> "EGAMode", colourmap |-> "EGA16ColourMapper" ]
   @@ "640x200x16" :>
        [ width |-> 640, height |-> 200, rows |-> 25, columns |-> 80,
          attr |-> 15, bitsperpixel |-> 4, interleave_times |-> 1,
          bank_size |-> 16384, max_pages |-> None, cursor_index |-> None,
          layout |-> "EGAMode", colourmap |-> "EGA16ColourMapper" ]
   @@ "640x350x16" :>
        [ width |-> 640, height |-> 350, rows |-> 25, columns |-> 80,
          attr |-> 15, bitsperpixel |-> 4, interleave_times |-> 1,
          bank_size |-> 32768, max_pages |-> None, cursor_index |-> None,
          layout |-> "EGAMode", colourmap |-> "EGA64ColourMapper" ]
   @@ "640x350x4" :>
        [ width |-> 640, height |-> 350, rows |-> 25, columns |-> 80,
          attr |-> 1, bitsperpixel |-> 2, interleave_times |-> 1,
          bank_size |-> 32768, max_pages |-> None, cursor_index |-> None,
          planes_used |-> <<1, 3>>, layout |-> "EGAMode",
          colourmap |-> "EGAMonoColourMapper" ]
   @@ "640x400x2" :>
        [ width |-> 640, height |-> 400, rows |-> 25, columns |-> 80,
          attr |-> 1, bitsperpixel |-> 1, interleave_times |-> 4,
          bank_size |-> 8192, max_pages |-> 1, cursor_index |-> None,
          layout |-> "CGAMode", colourmap |-> "CGA2ColourMapper" ]
   @@ "720x348x2" :>
        [ width |-> 720, height |-> 348, rows |-> 25, columns |-> 80,
          attr |-> 1, bitsperpixel |-> 1, interleave_times |-> 4,
          bank_size |-> 8192, max_pages |-> 2, cursor_index |-> None,
          layout |-> "CGAMode", colourmap |-> "HerculesColourMapper" ] )

\* the dict literal of _TEXT_MODES, by name, and its names in source order
_TEXT_MODES_names ==
    << "vgatext40", "vgatext80", "egatext40", "egatext80",
       "ega_monotext40", "ega_monotext80", "mdatext40", "mdatext80",
       "tandytext40", "tandytext80", "cgatext40", "cgatext80",
       "olivettitext40", "olivettitext80" >>

_TEXT_MODES ==
    ( "vgatext40" :>
        [ rows |-> 25, columns |-> 40, font_height |-> 16, font_width |-> 9,
          attr |-> 7, max_pages |-> 8, mono |-> FALSE, layout |-> "TextMode",
          colourmap |-> "EGA64TextColourMapper" ]
   @@ "vgatext80" :>
        [ rows |-> 25, columns |-> 80, font_height |-> 16, font_width |-> 9,
          attr |-> 7, max_pages |-> 4, mono |-> FALSE, layout |-> "TextMode",
          colourmap |-> "EGA64TextColourMapper" ]
   @@ "egatext40" :>
        [ rows |-> 25, columns |-> 40, font_height |-> 14, font_width |-> 8,
          attr |-> 7, max_pages |-> 8, mono |-> FALSE, layout |-> "TextMode",
          colourmap |-> "EGA64TextColourMapper" ]
   @@ "egatext80" :>
        [ rows |-> 25, columns |-> 80, font_height |-> 14, font_width |-> 8,
          attr |-> 7, max_pages |-> 4, mono |-> FALSE, layout |-> "TextMode",
          colourmap |-> "EGA64TextColourMapper" ]
   @@ "ega_monotext40" :>
        [ rows |-> 25, columns |-> 40, font_height |-> 14, font_width |-> 8,
          attr |-> 7, max_pages |-> 8, mono |-> TRUE, layout |-> "TextMode",
          colourmap |-> "MonoTextColourMapper" ]
   @@ "ega_monotext80" :>
        [ rows |-> 25, columns |-> 80, font_height |-> 14, font_width |-> 8,
          attr |-> 7, max_pages |-> 4, mono |-> TRUE, layout |-> "TextMode",
          colourmap |-> "MonoTextColourMapper" ]
   @@ "mdatext40" :>
        [ rows |-> 25, columns |-> 40, font_height |-> 14, font_width |-> 9,
          attr |-> 7, max_pages |-> 1, mono |-> TRUE, layout |-> "TextMode",
          colourmap |-> "MonoTextColourMapper" ]
   @@ "mdatext80" :>
        [ rows |-> 25, columns |-> 80, font_height |-> 14, font_width |-> 9,
          attr |-> 7, max_pages |-> 1, mono |-> TRUE, layout |-> "TextMode",
          colourmap |-> "MonoTextColourMapper" ]
   @@ "tandytext40" :>
        [ rows |-> 25, columns |-> 40, font_height |-> 9, font_width |-> 8,
          attr |-> 7, max_pages |-> 8, mono |-> FALSE, layout |-> "TextMode",
          colourmap |-> "EGA16TextColourMapper" ]
   @@ "tandytext80" :>
        [ rows |-> 25, columns |-> 80, font_height |-> 9, font_width |-> 8,
          attr |-> 7, max_pages |-> 4, mono |-> FALSE, layout |-> "TextMode",
          colourmap |-> "EGA16TextColourMapper" ]
   @@ "cgatext40" :>
        [ rows |-> 25, columns |-> 40, font_height |-> 8, font_width |-> 8,
          attr |-> 7, max_pages |-> 8, mono |-> FALSE, layout |-> "TextMode",
          colourmap |-> "EGA16TextColourMapper" ]
   @@ "cgatext80" :>
        [ rows |-> 25, columns |-> 80, font_height |-> 8, font_width |-> 8,
          attr |-> 7, max_pages |-> 4, mono |-> FALSE, layout |-> "TextMode",
          colourmap |-> "EGA16TextColourMapper" ]
   @@ "olivettitext40" :>
        [ rows |-> 25, columns |-> 40, font_height |-> 16, font_width |-> 8,
          attr |-> 7, max_pages |-> 8, mono |-> FALSE, layout |-> "TextMode",
          colourmap |-> "EGA16ColourMapper" ]
   @@ "olivettitext80" :>
        [ rows |-> 25, columns |-> 80, font_height |-> 16, font_width |-> 8,
          attr |-> 7, max_pages |-> 4, mono |-> FALSE, layout |-> "TextMode",
          colourmap |-> "EGA16ColourMapper" ] )


Range(s) == {s[i] : i \in DOMAIN s}

Index(names, name) == CHOOSE i \in 1..Len(names) : names[i] = name

\* _MODES after `_MODES['olivetti'].update(...)`: numbers 4..255 on olivetti
_MODES ==
    [_MODES_literal EXCEPT
        !.olivetti = [key \in {<<_mode>> : _mode \in 4..255} |-> "640x400x2"] @@ @]

\* the dict objects the two literals create, graphics first, in source order
LiteralDicts ==
    [ref \in 1..(Len(_GRAPHICS_MODES_names) + Len(_TEXT_MODES_names)) |->
        IF ref <= Len(_GRAPHICS_MODES_names)
        THEN _GRAPHICS_MODES[_GRAPHICS_MODES_names[ref]]
        ELSE _TEXT_MODES[_TEXT_MODES_names[ref - Len(_GRAPHICS_MODES_names)]]]

LiteralGraphicsRefs ==
    [name \in Range(_GRAPHICS_MODES_names) |-> Index(_GRAPHICS_MODES_names, name)]

LiteralTextRefs ==
    [name \in Range(_TEXT_MODES_names) |->
        Len(_GRAPHICS_MODES_names) + Index(_TEXT_MODES_names, name)]

\* `table[name] = table[other]`: name holds the dict object other holds
alias(refs, name, other) == (name :> refs[other]) @@ refs

\* `table[name][key] = value`: a write to the dict object name holds
setitem_in(ds, ref, key, value) == [ds EXCEPT ![ref] = (key :> value) @@ @]

\* _GRAPHICS_MODES after the two `_8pg` assignments
ImportedGraphicsRefs ==
    alias(alias(LiteralGraphicsRefs, "320x200x4_8pg", "320x200x4"),
          "640x200x2_8pg", "640x200x2")

\* the dict objects after `[...]['max_pages'] = 8` through the `_8pg` names
ImportedDicts ==
    setitem_in(setitem_in(LiteralDicts,
                          ImportedGraphicsRefs["320x200x4_8pg"], "max_pages", 8),
               ImportedGraphicsRefs["640x200x2_8pg"], "max_pages", 8)

\* a descriptor: the attributes VideoMode, TextMode and GraphicsMode set, the
\* colour mapper and memory mapper as the arguments they are constructed with.
\* A text mode has no bitsperpixel or cursor_index attribute (None here).
NoMode ==
    [ name |-> "", layout |-> "", is_text_mode |-> FALSE, height |-> 0, width |-> 0,
      font_height |-> 0, font_width |-> 0, pixel_height |-> 0, pixel_width |-> 0,
      attr |-> 0, bitsperpixel |-> None, cursor_index |-> None,
      colourmap |-> [cls |-> "", adapter |-> "", monitor |-> ""],
      memorymap |-> [cls |-> "", height |-> 0, width |-> 0, video_mem_size |-> 0,
                     max_pages |-> None, interleave_times |-> None,
                     bank_size |-> None, bitsperpixel |-> None, mono |-> FALSE,
                     planes_used |-> <<>>] ]

\* the outcome of a factory call and the dict objects it leaves
Made(mode, ds) == [status |-> "ok", mode |-> mode, dicts |-> ds]

Failed(exc, ds) == [status |-> exc, mode |-> NoMode, dicts |-> ds]

\* the dict object ref is replaced by itself: no copy is taken
dict_shared(ds, ref) == [dicts |-> ds, ref |-> ref]

\* dict(**d): a new dict object holding the items of d
dict(ds, ref) == [dicts |-> Append(ds, ds[ref]), ref |-> Len(ds) + 1]

\* d.pop(key) on the dict object ref, the key being present
pop(ds, ref, key) == [ds EXCEPT ![ref] = [k \in (DOMAIN @) \ {key} |-> @[k]]]

\* the memory mapper class of each layout class
memorymapper(cls) ==
    CASE cls = "TextMode" -> "TextMemoryMapper"
      [] cls = "CGAMode" -> "CGAMemoryMapper"
      [] cls = "EGAMode" -> "EGAMemoryMapper"
      [] cls = "Tandy6Mode" -> "Tandy6MemoryMapper"
      [] OTHER -> "GraphicsMemoryMapper"

\* the keyword arguments TextMode.__init__ takes from the dict
TextParams == {"rows", "columns", "font_height", "font_width", "attr", "max_pages", "mono"}

\* TextMode(name=, video_mem_size=, colourmap=, **mode_data)
TextMode(name, video_mem_size, colourmap, mode_data) ==
    IF DOMAIN mode_data # TextParams THEN Failed("TypeError", <<>>)
    ELSE Made([ name |-> name, layout |-> "TextMode", is_text_mode |-> TRUE,
                height |-> mode_data.rows, width |-> mode_data.columns,
                font_height |-> mode_data.font_height,
                font_width |-> mode_data.font_width,
                pixel_height |-> mode_data.rows * mode_data.font_height,
                pixel_width |-> mode_data.columns * mode_data.font_width,
                attr |-> mode_data.attr, bitsperpixel |-> None, cursor_index |-> None,
                colourmap |-> colourmap,
                memorymap |-> [cls |-> memorymapper("TextMode"),
                               height |-> mode_data.rows, width |-> mode_data.columns,
                               video_mem_size |-> video_mem_size,
                               max_pages |-> mode_data.max_pages,
                               interleave_times |-> None, bank_size |-> None,
                               bitsperpixel |-> None, mono |-> mode_data.mono,
                               planes_used |-> <<>>] ], <<>>)

\* the keyword arguments GraphicsMode.__init__ takes from the dict
GraphicsParams ==
    {"width", "height", "rows", "columns", "attr", "bitsperpixel",
     "interleave_times", "bank_size", "max_pages", "cursor_index"}

\* cls(name=, video_mem_size=, colourmap=, **mode_data) for CGAMode, EGAMode
\* (which also takes planes_used, range(4) by default) and Tandy6Mode
GraphicsMode(cls, name, video_mem_size, colourmap, mode_data) ==
    LET optional == IF cls = "EGAMode" THEN {"planes_used"} ELSE {}
    IN  IF ~(/\ GraphicsParams \subseteq DOMAIN mode_data
             /\ DOMAIN mode_data \subseteq GraphicsParams \cup optional)
        THEN Failed("TypeError", <<>>)
        ELSE Made([ name |-> name, layout |-> cls, is_text_mode |-> FALSE,
                    height |-> mode_data.rows, width |-> mode_data.columns,
                    font_height |-> -((-mode_data.height) \div mode_data.rows),
                    font_width |-> mode_data.width \div mode_data.columns,
                    pixel_height |-> mode_data.height,
                    pixel_width |-> mode_data.width,
                    attr |-> mode_data.attr,
                    bitsperpixel |-> mode_data.bitsperpixel,
                    cursor_index |-> mode_data.cursor_index,
                    colourmap |-> colourmap,
                    memorymap |-> [cls |-> memorymapper(cls),
                                   height |-> mode_data.height,
                                   width |-> mode_data.width,
                                   video_mem_size |-> video_mem_size,
                                   max_pages |-> mode_data.max_pages,
                                   interleave_times |-> mode_data.interleave_times,
                                   bank_size |-> mode_data.bank_size,
                                   bitsperpixel |-> mode_data.bitsperpixel,
                                   mono |-> FALSE,
                                   planes_used |->
                                       IF "planes_used" \in DOMAIN mode_data
                                       THEN mode_data.planes_used
                                       ELSE IF cls = "EGAMode" THEN <<0, 1, 2, 3>>
                                       ELSE <<>>] ], <<>>)

\* the body _get_graphics_mode and _get_text_mode share: copy the dict of the
\* name, pop layout and colourmap from the copy, construct the class
from_table(refs, ds, name, adapter, monitor, video_mem_size) ==
    IF name \notin DOMAIN refs THEN Failed("KeyError", ds)
    ELSE LET mode_data == dict(ds, refs[name])
             ref       == mode_data.ref
             d0        == mode_data.dicts[ref]
         IN  IF "layout" \notin DOMAIN d0 THEN Failed("KeyError", mode_data.dicts)
             ELSE LET ds1 == pop(mode_data.dicts, ref, "layout")
                  IN  IF "colourmap" \notin DOMAIN ds1[ref] THEN Failed("KeyError", ds1)
                      ELSE LET ds2 == pop(ds1, ref, "colourmap")
                               colourmap == [cls |-> d0.colourmap, adapter |-> adapter,
                                             monitor |-> monitor]
                               made == IF d0.layout = "TextMode"
                                       THEN TextMode(name, video_mem_size, colourmap,
                                                     ds2[ref])
                                       ELSE GraphicsMode(d0.layout, name, video_mem_size,
                                                         colourmap, ds2[ref])
                           IN  [made EXCEPT !.dicts = ds2]

_get_graphics_mode(grefs, ds, name, adapter, monitor, video_mem_size) ==
    from_table(grefs, ds, name, adapter, monitor, video_mem_size)

_get_text_mode(trefs, ds, name, adapter, monitor, video_mem_size) ==
    from_table(trefs, ds, name, adapter, monitor, video_mem_size)

\* the table lookups of get_mode, a missing key being a KeyError
lookup(ms, grefs, trefs, ds, number, width, adapter, monitor, video_mem_size) ==
    IF adapter \notin DOMAIN ms THEN Failed("KeyError", ds)
    ELSE IF number # 0
    THEN IF <<number>> \notin DOMAIN ms[adapter] THEN Failed("KeyError", ds)
         ELSE _get_graphics_mode(grefs, ds, ms[adapter][<<number>>],
                                 adapter, monitor, video_mem_size)
    ELSE IF <<0, width>> \notin DOMAIN ms[adapter] THEN Failed("KeyError", ds)
         ELSE _get_text_mode(trefs, ds, ms[adapter][<<0, width>>],
                             adapter, monitor, video_mem_size)

\* a get_mode that answers a missing key with the adapter's 80-column text mode
get_mode_or_text(ms, grefs, trefs, ds, number, width, adapter, monitor, video_mem_size) ==
    LET r == lookup(ms, grefs, trefs, ds, number, width, adapter, monitor, video_mem_size)
    IN  IF r.status = "KeyError"
        THEN lookup(ms, grefs, trefs, ds, 0, 80,
                    IF adapter \in DOMAIN ms THEN adapter ELSE "cga",
                    monitor, video_mem_size)
        ELSE r

\* get_mode: a KeyError becomes BASICError(IFC), anything else goes through
get_mode(ms, grefs, trefs, ds, number, width, adapter, monitor, video_mem_size) ==
    LET r == lookup(ms, grefs, trefs, ds, number, width, adapter, monitor, video_mem_size)
    IN  IF r.status = "KeyError" THEN [r EXCEPT !.status = "IFC"] ELSE r

\* the dict objects the tables hold: a copy made by a call is dropped with it
held(grefs, trefs, ds) ==
    [ref \in Range(grefs) \cup Range(trefs) |-> ds[ref]]

(***************************************************************************)
(* Calls of the factory                                                    *)
(***************************************************************************)
\* largest mode number drawn
MaxModeNumber == 256
\* calls made after the remembered one
MaxSince == 2

Arguments(number, width, adapter, monitor, video_mem_size) ==
    [ number |-> number, width |-> width, adapter |-> adapter, monitor |-> monitor,
      video_mem_size |-> video_mem_size ]

NoArguments == Arguments(0, 0, "", "", 0)

NoCall == [args |-> NoArguments, status |-> "none", mode |-> NoMode]

\* every adapter of _MODES and one it does not have
AdapterInputs == DOMAIN _MODES \cup {"sdl2"}

WidthInputs == {20, 40, 80}

MonitorInputs == {"rgb", "mono"}

ResolveInputs ==
    { Arguments(number, width, adapter, monitor, 262144) :
        number \in 0..MaxModeNumber, width \in WidthInputs,
        adapter \in AdapterInputs, monitor \in MonitorInputs }

\* the calls whose order is explored: text, graphics and missing modes
MemoInputs ==
    { Arguments(number, width, adapter, "rgb", 262144) :
        number \in {0, 1, 3, 9, 99}, width \in {40, 80},
        adapter \in {"cga", "ega", "tandy", "hercules", "olivetti", "mda"} }

\* the tables as the import of the module leaves them
Imported ==
    /\ modes = _MODES
    /\ gmodes = ImportedGraphicsRefs
    /\ tmodes = LiteralTextRefs
    /\ dicts = ImportedDicts

\* no call of the factory is drawn or made
ModesIdle ==
    /\ Imported
    /\ margs = NoArguments
    /\ call = NoCall
    /\ kept = NoCall
    /\ since = 0

ResolveInit ==
    /\ Imported
    /\ margs \in ResolveInputs
    /\ call = NoCall
    /\ kept = NoCall
    /\ since = 0

\* get_mode(**a) against the tables as they are now
Called(a) ==
    LET r == get_mode(modes, gmodes, tmodes, dicts, a.number, a.width, a.adapter,
                      a.monitor, a.video_mem_size)
    IN  /\ call' = [args |-> a, status |-> r.status, mode |-> r.mode]
        /\ dicts' = held(gmodes, tmodes, r.dicts)
        /\ UNCHANGED <<modes, gmodes, tmodes>>

\* the drawn call
Resolve ==
    /\ call.status = "none"
    /\ Called(margs)
    /\ UNCHANGED <<margs, kept, since>>
    /\ UNCHANGED <<cvars, gvars, xvars>>

\* a call whose outcome is remembered
ResolveAndKeep ==
    /\ \E a \in MemoInputs : Called(a)
    /\ kept' = call'
    /\ since' = 0
    /\ UNCHANGED margs
    /\ UNCHANGED <<cvars, gvars, xvars>>

\* any later call
ResolveAgain ==
    /\ kept.status # "none"
    /\ since < MaxSince
    /\ \E a \in MemoInputs : Called(a)
    /\ since' = since + 1
    /\ UNCHANGED <<margs, kept>>
    /\ UNCHANGED <<cvars, gvars, xvars>>

(***************************************************************************)
(* The WIDTH switch table (display/modes.py, TO_WIDTH)                     *)
(*                                                                         *)
(* A key of the table is a mode number or a mode name.                     *)
(***************************************************************************)
ByNumber(nr) == [number |-> nr, name |-> ""]

ByName(name) == [number |-> None, name |-> name]

\* TO_WIDTH as its literal gives it: adapter, mode number, width, new mode number
TO_WIDTH_literal ==
    [ cga |->
        ( 0 :> (40 :> 0 @@ 80 :> 0)
       @@ 1 :> (40 :> 1 @@ 80 :> 2)
       @@ 2 :> (40 :> 1 @@ 80 :> 2) ),
      ega |->
        ( 0 :> (40 :> 0 @@ 80 :> 0)
       @@ 1 :> (40 :> 1 @@ 80 :> 2)
       @@ 2 :> (40 :> 1 @@ 80 :> 2)
       @@ 7 :> (40 :> 7 @@ 80 :> 8)
       @@ 8 :> (40 :> 7 @@ 80 :> 8)
       @@ 9 :> (40 :> 1 @@ 80 :> 9) ),
      mda |->
        ( 0 :> (40 :> 0 @@ 80 :> 0) ),
      ega_mono |->
        ( 0 :> (40 :> 0 @@ 80 :> 0)
       @@ 10 :> (40 :> 0 @@ 80 :> 10) ),
      hercules |->
        ( 0 :> (40 :> 0 @@ 80 :> 0)
       @@ 3 :> (40 :> 0 @@ 80 :> 3) ),
      pcjr |->
        ( 0 :> (20 :> 3 @@ 40 :> 0 @@ 80 :> 0)
       @@ 1 :> (20 :> 3 @@ 40 :> 1 @@ 80 :> 2)
       @@ 2 :> (20 :> 3 @@ 40 :> 1 @@ 80 :> 2)
       @@ 3 :> (20 :> 3 @@ 40 :> 1 @@ 80 :> 2)
       @@ 4 :> (20 :> 3 @@ 40 :> 4 @@ 80 :> 2)
       @@ 5 :> (20 :> 3 @@ 40 :> 5 @@ 80 :> 6)
       @@ 6 :> (20 :> 3 @@ 40 :> 5 @@ 80 :> 6) ),
      olivetti |->
        ( 0 :> (40 :> 0 @@ 80 :> 0)
       @@ 1 :> (40 :> 1 @@ 80 :> 2)
       @@ 2 :> (40 :> 1 @@ 80 :> 2)
       @@ 3 :> (40 :> 1 @@ 80 :> 3) ) ]

\* the mode numbers of a table the loop names: `if _nr`
Named(switches) == {nr \in DOMAIN switches : nr # 0}

\* TO_WIDTH[_adapter].update({_MODES[_adapter][_nr]: _switches ...}): the
\* switches of every non-zero number are entered under the mode's name too,
\* a later number replacing an earlier one of the same name
update_names(ms, adapter, switches) ==
    LET names == {ms[adapter][<<nr>>] : nr \in Named(switches)}
        last_nr(name) == CHOOSE nr \in Named(switches) :
                            /\ ms[adapter][<<nr>>] = name
                            /\ \A other \in Named(switches) :
                                    ms[adapter][<<other>>] = name => other <= nr
    IN  [key \in {ByNumber(nr) : nr \in DOMAIN switches} \cup {ByName(name) : name \in names} |->
            IF key.name = "" THEN switches[key.number] ELSE switches[last_nr(key.name)]]

\* TO_WIDTH after the loop over its adapters and the `vga` and `tandy` entries
TO_WIDTH ==
    LET looped == [adapter \in DOMAIN TO_WIDTH_literal |->
                        update_names(_MODES, adapter, TO_WIDTH_literal[adapter])]
    IN  ("tandy" :> looped.pcjr) @@ ("vga" :> looped.ega) @@ looped

\* a lookup that stays in the current mode whatever the width
to_width_keep_mode(table, adapter, key, width) ==
    IF adapter \notin DOMAIN table THEN [status |-> "KeyError", target |-> None]
    ELSE IF key \notin DOMAIN table[adapter] THEN [status |-> "KeyError", target |-> None]
    ELSE IF width \notin DOMAIN table[adapter][key] THEN [status |-> "KeyError", target |-> None]
    ELSE [status |-> "ok", target |-> table[adapter][key][CHOOSE w \in DOMAIN table[adapter][key] :
                                        \A v \in DOMAIN table[adapter][key] : w <= v]]

\* TO_WIDTH[adapter][key][width], a missing key being a KeyError
to_width(table, adapter, key, width) ==
    IF adapter \notin DOMAIN table THEN [status |-> "KeyError", target |-> None]
    ELSE IF key \notin DOMAIN table[adapter] THEN [status |-> "KeyError", target |-> None]
    ELSE IF width \notin DOMAIN table[adapter][key] THEN [status |-> "KeyError", target |-> None]
    ELSE [status |-> "ok", target |-> table[adapter][key][width]]

NoLookup == [status |-> "none", target |-> None]

\* the width machine: the drawn adapter, current mode number and width, the
\* outcome of the lookup by number and by name, and which was made last
WidthDrawn(adapter, number, width) ==
    [ adapter |-> adapter, number |-> number, width |-> width,
      bynumber |-> NoLookup, byname |-> NoLookup, made |-> "none" ]

WidthIdle == tw = WidthDrawn("", 0, 0)

WidthInit ==
    \E adapter \in DOMAIN _MODES, number \in 0..MaxModeNumber, width \in WidthInputs :
        tw = WidthDrawn(adapter, number, width)

\* the mode the lookup gives is resolved with the requested width
Switched(r) ==
    IF r.status = "ok"
    THEN Called(Arguments(r.target, tw.width, tw.adapter, "rgb", 262144))
    ELSE UNCHANGED <<modes, gmodes, tmodes, dicts, call>>

\* WIDTH in the drawn mode, the table looked up by the mode's number
WidthByNumber ==
    /\ tw.adapter # ""
    /\ tw.bynumber.status = "none"
    /\ LET r == to_width(TO_WIDTH, tw.adapter, ByNumber(tw.number), tw.width)
       IN  /\ tw' = [tw EXCEPT !.bynumber = r, !.made = "number"]
           /\ Switched(r)
    /\ UNCHANGED <<margs, kept, since>>
    /\ UNCHANGED <<cvars, gvars, beside_tw>>

\* WIDTH in the drawn graphics mode, the table looked up by the mode's name
WidthByName ==
    /\ tw.adapter # ""
    /\ tw.byname.status = "none"
    /\ tw.number # 0
    /\ <<tw.number>> \in DOMAIN modes[tw.adapter]
    /\ LET r == to_width(TO_WIDTH, tw.adapter, ByName(modes[tw.adapter][<<tw.number>>]),
                         tw.width)
       IN  /\ tw' = [tw EXCEPT !.byname = r, !.made = "name"]
           /\ Switched(r)
    /\ UNCHANGED <<margs, kept, since>>
    /\ UNCHANGED <<cvars, gvars, beside_tw>>

(***************************************************************************)
(* The low-level mode number (display/modes.py, get_mode_number)           *)
(***************************************************************************)
_MODE_NUMBER ==
    ( "640x200x2" :> 6 @@ "160x200x16" :> 8 @@ "320x200x16pcjr" :> 9
   @@ "640x200x4" :> 10 @@ "320x200x16" :> 13 @@ "640x200x16" :> 14
   @@ "640x350x4" :> 15 @@ "640x350x16" :> 16 @@ "640x400x2" :> 64
   @@ "320x200x4pcjr" :> 4 @@ "320x200x4" :> 4 )

\* the mode with the mode_5 attribute of its colour mapper, which is state of
\* the mapper and not set by the factory
with_mode_5(mode, mode_5) ==
    [ name |-> mode.name, is_text_mode |-> mode.is_text_mode, width |-> mode.width,
      colourmap |-> [cls |-> mode.colourmap.cls, mode_5 |-> mode_5] ]

\* True and False as the ints they are in arithmetic
int(b) == IF b THEN 1 ELSE 0

\* a get_mode_number that does not reduce colorswitch
get_mode_number_raw_switch(mode, colorswitch) ==
    IF mode.is_text_mode
    THEN IF mode.name \in {"mdatext80", "ega_monotext80"} THEN 7
         ELSE int(mode.width = 40) * 2 + colorswitch
    ELSE IF mode.name = "320x200x4" THEN 4 + int(mode.colourmap.mode_5)
    ELSE IF mode.name \in DOMAIN _MODE_NUMBER THEN _MODE_NUMBER[mode.name]
    ELSE 255

\* get_mode_number(mode, colorswitch)
get_mode_number(mode, colorswitch) ==
    IF mode.is_text_mode
    THEN IF mode.name \in {"mdatext80", "ega_monotext80"} THEN 7
         ELSE int(mode.width = 40) * 2 + (colorswitch % 2)
    ELSE IF mode.name = "320x200x4" THEN 4 + int(mode.colourmap.mode_5)
    ELSE IF mode.name \in DOMAIN _MODE_NUMBER THEN _MODE_NUMBER[mode.name]
    ELSE 255

\* largest colorswitch drawn, the smallest being its negative
MaxColorSwitch == 2

\* the encode machine: the drawn colorswitch and mode_5, and the number returned
EncodeDrawn(colorswitch, mode_5) ==
    [colorswitch |-> colorswitch, mode_5 |-> mode_5, status |-> "none", number |-> None]

EncodeIdle == enc = EncodeDrawn(0, FALSE)

\* a get_mode call on an adapter of _MODES, a colorswitch and a mode_5 are drawn
EncodeInit ==
    /\ Imported
    /\ \E number \in 0..MaxModeNumber, width \in {40, 80}, adapter \in DOMAIN _MODES :
            margs = Arguments(number, width, adapter, "rgb", 262144)
    /\ call = NoCall
    /\ kept = NoCall
    /\ since = 0
    /\ \E colorswitch \in (-MaxColorSwitch)..MaxColorSwitch, mode_5 \in BOOLEAN :
            enc = EncodeDrawn(colorswitch, mode_5)

\* get_mode_number of the mode the drawn call returned
Encode ==
    /\ call.status = "ok"
    /\ enc.status = "none"
    /\ enc' = [enc EXCEPT
                !.status = "ok",
                !.number = get_mode_number(with_mode_5(call.mode, enc.mode_5),
                                           enc.colorswitch)]
    /\ UNCHANGED <<cvars, gvars, mvars, beside_enc>>

(***************************************************************************)
(* Text and pixel areas of a mode (display/modes.py, VideoMode)            *)
(***************************************************************************)
\* VideoMode.pixel_to_text_area(x0, y0, x1, y1): row0, col0, row1, col1
pixel_to_text_area(mode, x0, y0, x1, y1) ==
    LET col0 == Min(mode.width, Max(1, 1 + (x0 \div mode.font_width)))
        row0 == Min(mode.height, Max(1, 1 + (y0 \div mode.font_height)))
        col1 == Min(mode.width, Max(1, 1 + (x1 \div mode.font_width)))
        row1 == Min(mode.height, Max(1, 1 + (y1 \div mode.font_height)))
    IN  <<row0, col0, row1, col1>>

\* VideoMode.text_to_pixel_area(row0, col0, row1, col1): four pixel values
text_to_pixel_area(mode, row0, col0, row1, col1) ==
    << (col0 - 1) * mode.font_width, (row0 - 1) * mode.font_height,
       (col1 - col0 + 1) * mode.font_width - 1,
       (row1 - row0 + 1) * mode.font_height - 1 >>

\* largest mode number drawn for a mode whose areas are converted
MaxAreaModeNumber == 10
\* the rows and columns drawn are 1..MaxAreaCell and the last of the mode
MaxAreaCell == 3

NoArea == <<0, 0, 0, 0>>

\* the area machine: the text area drawn, the pixel values it is converted to
\* and the text area these are converted back to
AreaIdle == area = [step |-> "none", text |-> NoArea, pixel |-> NoArea, back |-> NoArea]

AreaInit ==
    /\ Imported
    /\ \E number \in 0..MaxAreaModeNumber, width \in {40, 80}, adapter \in DOMAIN _MODES :
            margs = Arguments(number, width, adapter, "rgb", 262144)
    /\ call = NoCall
    /\ kept = NoCall
    /\ since = 0
    /\ AreaIdle

\* mode.text_to_pixel_area of a valid text area of the mode get_mode returned
TextToPixelArea ==
    /\ call.status = "ok"
    /\ area.step = "none"
    /\ \E row0, row1 \in (1..MaxAreaCell) \cup {call.mode.height},
          col0, col1 \in (1..MaxAreaCell) \cup {call.mode.width} :
            /\ row0 <= row1 /\ row1 <= call.mode.height
            /\ col0 <= col1 /\ col1 <= call.mode.width
            /\ area' = [area EXCEPT
                    !.step = "pixel",
                    !.text = <<row0, col0, row1, col1>>,
                    !.pixel = text_to_pixel_area(call.mode, row0, col0, row1, col1)]
    /\ UNCHANGED <<cvars, gvars, mvars, beside_area>>

\* mode.pixel_to_text_area of the four values returned
PixelToTextArea ==
    /\ area.step = "pixel"
    /\ area' = [area EXCEPT
            !.step = "text",
            !.back = pixel_to_text_area(call.mode, area.pixel[1], area.pixel[2],
                                        area.pixel[3], area.pixel[4])]
    /\ UNCHANGED <<cvars, gvars, mvars, beside_area>>

(***************************************************************************)
(* Stacking two matrices and slicing the result apart again                *)
(***************************************************************************)
\* the outcome of a call that returns a matrix: its _width, _height and rows
Outcome(r) ==
    IF r.status = "ok"
    THEN [status |-> "ok", width |-> r.val.width, height |-> r.val.height,
          rows |-> BytesOf(r.val.rows)]
    ELSE [status |-> r.status, width |-> 0, height |-> 0, rows |-> <<>>]

NoOutcome == [status |-> "none", width |-> 0, height |-> 0, rows |-> <<>>]

\* a returned matrix as an object over the heap of its own rows
Object(m) ==
    [live |-> TRUE, hasrows |-> TRUE, width |-> m.width, height |-> m.height,
     rows |-> [i \in 1..Len(m.rows) |-> i]]

\* the stack machine: the two matrices held are stacked, and the result is
\* sliced at the seam into a first and a second part
StackIdle ==
    stk = [op |-> "none", stacked |-> NoOutcome, first |-> NoOutcome, second |-> NoOutcome]

\* hstack((a, b)) or vstack((a, b)) of the two matrices held
StackPair ==
    /\ stk.op = "none"
    /\ \A sl \in Slots : grids[sl].live
    /\ \E op \in {"hstack", "vstack"} :
        stk' = [stk EXCEPT
                 !.op = op,
                 !.stacked = Outcome(IF op = "hstack"
                                     THEN hstack(heap, <<grids[1], grids[2]>>)
                                     ELSE vstack(heap, <<grids[1], grids[2]>>))]
    /\ UNCHANGED <<cvars, gvars, mvars, beside_stk>>

\* stacked[0:a.width, :] or stacked[:, 0:a.height], the slice over all rows or
\* columns written with the bounds of the stacked matrix
SliceFirst ==
    /\ stk.stacked.status = "ok"
    /\ stk.first.status = "none"
    /\ stk' = [stk EXCEPT !.first = Outcome(
                IF stk.op = "hstack"
                THEN getitem(stk.stacked.rows, Object(stk.stacked),
                             Slice(0, grids[1].width), Slice(0, stk.stacked.height))
                ELSE getitem(stk.stacked.rows, Object(stk.stacked),
                             Slice(0, stk.stacked.width), Slice(0, grids[1].height)))]
    /\ UNCHANGED <<cvars, gvars, mvars, beside_stk>>

\* stacked[a.width:a.width+b.width, :] or stacked[:, a.height:a.height+b.height]
SliceSecond ==
    /\ stk.stacked.status = "ok"
    /\ stk.second.status = "none"
    /\ stk' = [stk EXCEPT !.second = Outcome(
                IF stk.op = "hstack"
                THEN getitem(stk.stacked.rows, Object(stk.stacked),
                             Slice(grids[1].width, grids[1].width + grids[2].width),
                             Slice(0, stk.stacked.height))
                ELSE getitem(stk.stacked.rows, Object(stk.stacked),
                             Slice(0, stk.stacked.width),
                             Slice(grids[1].height, grids[1].height + grids[2].height)))]
    /\ UNCHANGED <<cvars, gvars, mvars, beside_stk>>

(***************************************************************************)
(* Construction from a flat sequence of width * height bytes               *)
(***************************************************************************)
\* the largest width and height of a matrix built from a flat sequence
MaxFlat == 3

NoFlat == [width |-> 0, height |-> 0, fill |-> <<>>, made |-> NoOutcome]

FlatIdle == flat = NoFlat

\* the arguments: a width and a height of at least 1 and a list of exactly
\* width * height byte values
FlatInit ==
    \E w \in 1..MaxFlat, h \in 1..MaxFlat :
        \E fill \in [1..(w * h) -> Val] :
            flat = [width |-> w, height |-> h, fill |-> fill, made |-> NoOutcome]

\* ByteMatrix(width, height, fill)
ConstructFlat ==
    /\ flat.made.status = "none"
    /\ flat # NoFlat
    /\ LET r == init(flat.width, flat.height, DataInts(flat.fill))
       IN  flat' = [flat EXCEPT !.made =
                Outcome(IF r.status = "ok"
                        THEN Ok(Matrix(flat.width, flat.height, r.val.items))
                        ELSE r)]
    /\ UNCHANGED <<cvars, gvars, mvars, beside_flat>>

(***************************************************************************)
(* The video plugin: the event cycle and the signal queue                  *)
(***************************************************************************)
\* the most signals the session puts on the video queue
MaxSignals == 3

\* the most calls of cycle()
MaxCycles == 3

\* the event types that have a handler
_handlers ==
    {"VIDEO_SET_MODE", "VIDEO_PUT_TEXT", "VIDEO_CLEAR_ROWS", "VIDEO_SCROLL",
     "VIDEO_SET_PALETTE", "VIDEO_SET_CURSOR_SHAPE", "VIDEO_SHOW_CURSOR",
     "VIDEO_MOVE_CURSOR", "VIDEO_SET_PAGE", "VIDEO_COPY_PAGE",
     "VIDEO_SET_BORDER_ATTR", "VIDEO_PUT_RECT", "VIDEO_SET_CAPTION",
     "VIDEO_SET_CLIPBOARD_TEXT"}

\* the event types put on the queue: the quit signal, one with a handler and
\* one without
SignalInputs == {"VIDEO_QUIT", "VIDEO_PUT_TEXT", "AUDIO_TONE"}

\* the plugin: alive, the video queue, where the interface thread is (outside
\* cycle or in the loop of _drain_queue), whether VIDEO_QUIT was taken from the
\* queue and the calls made since then
Plugin(alive, q, at) ==
    [alive |-> alive, queue |-> q, at |-> at, quit |-> FALSE, after |-> {},
     puts |-> 0, cycles |-> 0]

VideoIdle == vid = Plugin(FALSE, <<>>, "none")

\* __init__
VideoInit == vid = Plugin(TRUE, <<>>, "idle")

\* the calls made, noted once VIDEO_QUIT was taken
called(names) == IF vid.quit THEN vid.after \cup names ELSE vid.after

\* the session puts a signal on the video queue, at any moment
Put ==
    /\ vid.at # "none"
    /\ vid.puts < MaxSignals
    /\ \E signal \in SignalInputs :
        vid' = [vid EXCEPT !.queue = Append(@, signal), !.puts = @ + 1]
    /\ UNCHANGED <<cvars, gvars, mvars, beside_vid>>

\* cycle(): enters _drain_queue if alive; if not alive neither branch is taken
cycle ==
    /\ vid.at = "idle"
    /\ vid.cycles < MaxCycles
    /\ vid' = [vid EXCEPT !.cycles = @ + 1,
                          !.at = IF vid.alive THEN "drain" ELSE "idle"]
    /\ UNCHANGED <<cvars, gvars, mvars, beside_vid>>

\* _drain_queue, one turn of the loop with a signal on the queue: VIDEO_QUIT
\* clears alive, any other signal goes to its handler if it has one, and the
\* loop goes on
_drain_queue ==
    /\ vid.at = "drain"
    /\ vid.queue # <<>>
    /\ LET signal == Head(vid.queue)
       IN  vid' = [vid EXCEPT
                    !.queue = Tail(@),
                    !.alive = IF signal = "VIDEO_QUIT" THEN FALSE ELSE @,
                    !.quit = IF signal = "VIDEO_QUIT" THEN TRUE ELSE @,
                    !.after = IF signal # "VIDEO_QUIT" /\ signal \in _handlers
                              THEN called({"handler"}) ELSE @]
    /\ UNCHANGED <<cvars, gvars, mvars, beside_vid>>

\* _drain_queue finds the queue empty and returns; cycle() then calls _work
\* and _check_input if still alive
Empty ==
    /\ vid.at = "drain"
    /\ vid.queue = <<>>
    /\ vid' = [vid EXCEPT
                !.at = "idle",
                !.after = IF vid.alive THEN called({"_work", "_check_input"}) ELSE @]
    /\ UNCHANGED <<cvars, gvars, mvars, beside_vid>>

CodecNext == Unpack \/ Pack

ResolveNext == Resolve

MemoNext == ResolveAndKeep \/ ResolveAgain

WidthNext == WidthByNumber \/ WidthByName

EncodeNext == Resolve \/ Encode

AreaNext == Resolve \/ TextToPixelArea \/ PixelToTextArea

StackNext == Construct \/ StackPair \/ SliceFirst \/ SliceSecond

FlatNext == ConstructFlat

VideoNext == Put \/ cycle \/ _drain_queue \/ Empty

\* the codec machine before any input is drawn
CodecIdle ==
    /\ cin = [k |-> 1, height |-> 0, val |-> ErrorValue("")]
    /\ cur = cin.val
    /\ csteps = <<>>

\* the machines around the catalogue before anything is drawn
OthersIdle == WidthIdle /\ EncodeIdle /\ AreaIdle /\ StackIdle /\ FlatIdle /\ VideoIdle

InitCodec == CodecInit /\ GridInit /\ ModesIdle /\ OthersIdle

InitGrid == CodecIdle /\ GridInit /\ ModesIdle /\ OthersIdle

InitResolve == CodecIdle /\ GridInit /\ ResolveInit /\ OthersIdle

InitMemo == CodecIdle /\ GridInit /\ ModesIdle /\ OthersIdle

InitWidth == CodecIdle /\ GridInit /\ ModesIdle /\ WidthInit /\ EncodeIdle /\ AreaIdle /\ StackIdle /\ FlatIdle /\ VideoIdle

InitEncode == CodecIdle /\ GridInit /\ EncodeInit /\ WidthIdle /\ AreaIdle /\ StackIdle /\ FlatIdle /\ VideoIdle

InitArea == CodecIdle /\ GridInit /\ AreaInit /\ WidthIdle /\ EncodeIdle /\ StackIdle /\ FlatIdle /\ VideoIdle

InitStack == CodecIdle /\ GridInit /\ ModesIdle /\ OthersIdle

InitFlat == CodecIdle /\ GridInit /\ ModesIdle /\ WidthIdle /\ EncodeIdle /\ AreaIdle /\ StackIdle /\ FlatInit /\ VideoIdle

SpecCodec == InitCodec /\ [][CodecNext]_vars

SpecGrid == InitGrid /\ [][GridNext]_vars

SpecResolve == InitResolve /\ [][ResolveNext]_vars

SpecMemo == InitMemo /\ [][MemoNext]_vars

SpecWidth == InitWidth /\ [][WidthNext]_vars

SpecEncode == InitEncode /\ [][EncodeNext]_vars

SpecArea == InitArea /\ [][AreaNext]_vars

SpecStack == InitStack /\ [][StackNext]_vars

SpecFlat == InitFlat /\ [][FlatNext]_vars

InitVideo ==
    /\ CodecIdle /\ GridInit /\ ModesIdle
    /\ WidthIdle /\ EncodeIdle /\ AreaIdle /\ StackIdle /\ FlatIdle /\ VideoInit

SpecVideo == InitVideo /\ [][VideoNext]_vars

(***************************************************************************)
(* Properties of the codec machine                                         *)
(***************************************************************************)
\* cell number n (from 0) of a matrix read in row-major order
CellAt(g, n) == g.rows[(n \div g.width) + 1][(n % g.width) + 1]

IsRectangular(g) ==
    /\ Len(g.rows) = g.height
    /\ \A r \in 1..Len(g.rows) : Len(g.rows[r]) = g.width

\* the layout C2 states: the most significant sub-value of each byte first
HasPackedLayout(g, S, k) ==
    LET bpp == 8 \div k
    IN  \A j \in 0..(Len(S) - 1) : \A i \in 0..(k - 1) :
            CellAt(g, j * k + i) = (S[j + 1] \div Pow2(8 - bpp - i * bpp)) % Pow2(bpp)

\* C1 as stated: for every items-per-byte k and every byte sequence S,
\* frompacked(S, 1, k) returns a matrix and packing it with k gives back S.
C1_PackUnpackReturnsAnyInput ==
    (cin.val.kind = "bytes" /\ cin.height = 1) =>
        /\ (csteps = <<"Unpack">> => cur.kind = "grid")
        /\ (csteps = <<"Unpack", "Pack">> => cur.kind = "bytes" /\ cur.bytes = cin.val.bytes)

\* C1 (amended): for every items-per-byte k and every byte sequence S that is
\* not empty, frompacked(S, 1, k) returns a matrix and packing it with k gives
\* back exactly S.
C1_PackUnpackReturnsInput ==
    (cin.val.kind = "bytes" /\ cin.height = 1 /\ Len(cin.val.bytes) >= 1) =>
        /\ (csteps = <<"Unpack">> => cur.kind = "grid")
        /\ (csteps = <<"Unpack", "Pack">> => cur.kind = "bytes" /\ cur.bytes = cin.val.bytes)

\* two bytes unpacked into one row of eight 2-bit cells and packed again
C1_Witness ==
    /\ cin.val.kind = "bytes"
    /\ cin.height = 1
    /\ cin.k = 4
    /\ cin.val.bytes = <<27, 165>>
    /\ csteps = <<"Unpack", "Pack">>
    /\ cur.bytes = <<27, 165>>

\* C2 as stated, read for a packed string that is not empty and a height of at
\* least 1: frompacked returns a matrix of `height` rows of width
\* k*len(packed)/height holding the sub-values of each byte, most significant first.
C2_UnpackLayoutForAnyHeight ==
    (/\ cin.val.kind = "bytes"
     /\ Len(cin.val.bytes) >= 1
     /\ cin.height >= 1
     /\ csteps = <<"Unpack">>) =>
        /\ cur.kind = "grid"
        /\ cur.grid.height = cin.height
        /\ cur.grid.width * cin.height = cin.k * Len(cin.val.bytes)
        /\ IsRectangular(cur.grid)
        /\ HasPackedLayout(cur.grid, cin.val.bytes, cin.k)

\* the heights C2 holds for: packed is not empty and height divides k*len(packed)
C2_HeightDivides ==
    /\ cin.val.kind = "bytes"
    /\ Len(cin.val.bytes) >= 1
    /\ cin.height >= 1
    /\ (cin.k * Len(cin.val.bytes)) % cin.height = 0

\* C2 (amended): when packed is not empty and height >= 1 divides k*len(packed),
\* frompacked returns a matrix of `height` rows of width k*len(packed)/height in
\* which cell j*k+i, in row-major order, is (packed[j] >> (8-bpp-i*bpp)) & (2^bpp-1).
C2_UnpackLayout ==
    (C2_HeightDivides /\ csteps = <<"Unpack">>) =>
        /\ cur.kind = "grid"
        /\ cur.grid.height = cin.height
        /\ cur.grid.width * cin.height = cin.k * Len(cin.val.bytes)
        /\ IsRectangular(cur.grid)
        /\ HasPackedLayout(cur.grid, cin.val.bytes, cin.k)

\* a byte with four different 2-bit sub-values unpacked into two rows of two
C2_Witness ==
    /\ C2_HeightDivides
    /\ csteps = <<"Unpack">>
    /\ cin.k = 4
    /\ cin.height = 2
    /\ cin.val.bytes = <<27>>
    /\ cur.kind = "grid"
    /\ cur.grid.rows = <<(<<0, 1>>), (<<2, 3>>)>>

\* every cell of the drawn matrix lies in [0, 2^(8/k))
C6_InRange ==
    /\ cin.val.kind = "grid"
    /\ \A r \in 1..Len(cin.val.grid.rows) : \A c \in 1..Len(cin.val.grid.rows[r]) :
            cin.val.grid.rows[r][c] \in 0..(Pow2(8 \div cin.k) - 1)

\* C6 as stated, read for a matrix with at least one cell: for every matrix G
\* with in-range cells, frompacked(G.packed(k), G.height, k) has the width,
\* height and cells of G.
C6_UnpackPackReturnsAnyGrid ==
    (/\ C6_InRange
     /\ cin.val.grid.width * cin.val.grid.height > 0
     /\ csteps = <<"Pack", "Unpack">>) =>
        (cur.kind = "grid" /\ cur.grid = cin.val.grid)

\* the number of cells is a positive multiple of k
C6_WholeBytes ==
    /\ cin.val.grid.width * cin.val.grid.height > 0
    /\ (cin.val.grid.width * cin.val.grid.height) % cin.k = 0

\* C6 (amended): for every matrix G with in-range cells whose number of cells is
\* a positive multiple of k, frompacked(G.packed(k), G.height, k) has the width,
\* height and cells of G.
C6_UnpackPackReturnsGrid ==
    (C6_InRange /\ C6_WholeBytes /\ csteps = <<"Pack", "Unpack">>) =>
        (cur.kind = "grid" /\ cur.grid = cin.val.grid)

\* a 2 x 2 matrix of 2-bit cells packed into one byte and unpacked again
C6_Witness ==
    /\ C6_InRange
    /\ C6_WholeBytes
    /\ csteps = <<"Pack", "Unpack">>
    /\ cin.k = 4
    /\ cin.val.grid.rows = <<(<<0, 3>>), (<<3, 0>>)>>
    /\ cur.kind = "grid"
    /\ cur.grid = cin.val.grid

(***************************************************************************)
(* Properties of the grid machine                                          *)
(***************************************************************************)
HeldRectangular(g) ==
    /\ Len(g.rows) = g.height
    /\ \A r \in 1..Len(g.rows) : Len(heap[g.rows[r]]) = g.width

\* C3: as long as every call has returned without an exception, every
\* ByteMatrix has exactly `height` rows and every row holds exactly `width` bytes.
C3_Rectangular ==
    clean => \A sl \in Slots : grids[sl].live => HeldRectangular(grids[sl])

\* C5: no two distinct ByteMatrix objects hold the same row buffer.
C5_NoSharedRowBuffer ==
    \A a, b \in Slots :
        a # b => \A i \in 1..Len(grids[a].rows) : \A j \in 1..Len(grids[b].rows) :
                    grids[a].rows[i] # grids[b].rows[j]

\* the number of positions a slice or a scalar index selects among n
Selected(ix, n) ==
    IF ix.range THEN Max(ClipBound(ix.hi, n) - ClipBound(ix.lo, n), 0) ELSE 1

\* C7: a Get with a range on either axis of a rectangular matrix of at least
\* one row and one column, its scalar index (if any) inside the matrix, never
\* raises; the result has as many rows and columns as the ranges select after
\* clipping, 0 for a range outside.
C7_RangeGetNeverRaises ==
    (/\ last.op = "Get"
     /\ (last.x.range \/ last.y.range)
     /\ last.pre[1][1] >= 1
     /\ last.pre[1][2] >= 1
     /\ (~last.x.range => last.x.lo \in 0..(last.pre[1][1] - 1))
     /\ (~last.y.range => last.y.lo \in 0..(last.pre[1][2] - 1))
     /\ last.dst # last.src[1]
     /\ grids[last.src[1]].hasrows
     /\ HeldRectangular(grids[last.src[1]]))
    => /\ last.status = "ok"
       /\ grids[last.dst].width = Selected(last.x, last.pre[1][1])
       /\ grids[last.dst].height = Selected(last.y, last.pre[1][2])

\* the matrices of the last call all have at least one row and one column
StackedNonEmpty == \A i \in 1..Len(last.pre) : last.pre[i][1] >= 1 /\ last.pre[i][2] >= 1

\* C8: hstack of matrices of different heights raises, and vstack of matrices
\* of different widths raises; neither returns a matrix.
C8_StackRejectsMismatch ==
    /\ (/\ last.op = "HStack"
        /\ StackedNonEmpty
        /\ \E i, j \in 1..Len(last.pre) : last.pre[i][2] # last.pre[j][2])
            => last.status # "ok"
    /\ (/\ last.op = "VStack"
        /\ StackedNonEmpty
        /\ \E i, j \in 1..Len(last.pre) : last.pre[i][1] # last.pre[j][1])
            => last.status # "ok"

\* C9: render(back, fore) of a matrix of 0s and 1s returns a matrix of the same
\* shape holding `back` exactly where the source holds 0 and `fore` where it holds 1.
C9_RenderMapsBits ==
    (/\ last.op = "Render"
     /\ last.status = "ok"
     /\ last.dst # last.src[1]
     /\ \A r \in 1..Len(grids[last.src[1]].rows) :
            \A c \in 1..Len(heap[grids[last.src[1]].rows[r]]) :
                heap[grids[last.src[1]].rows[r]][c] \in {0, 1})
    => /\ grids[last.dst].width = grids[last.src[1]].width
       /\ grids[last.dst].height = grids[last.src[1]].height
       /\ RowsOf(heap, grids[last.dst]) =
            [r \in 1..Len(grids[last.src[1]].rows) |->
                [c \in 1..Len(heap[grids[last.src[1]].rows[r]]) |->
                    IF heap[grids[last.src[1]].rows[r]][c] = 0
                    THEN last.args[1] ELSE last.args[2]]]

(***************************************************************************)
(* Properties of the factory                                               *)
(***************************************************************************)
\* the adapter's table defines the graphics mode of the call
DefinesGraphics(a) ==
    /\ a.number # 0
    /\ a.adapter \in DOMAIN _MODES
    /\ <<a.number>> \in DOMAIN _MODES[a.adapter]

\* the adapter's table defines the text mode of the call
DefinesText(a) ==
    /\ a.number = 0
    /\ a.adapter \in DOMAIN _MODES
    /\ <<0, a.width>> \in DOMAIN _MODES[a.adapter]

\* C4: a non-zero mode number the adapter's table defines gives a graphics
\* descriptor named by that entry whatever the width; mode 0 with a width the
\* adapter defines gives a text descriptor named by that entry; every other
\* call raises the illegal function call and returns no mode.
C4_ResolveByTable ==
    call.status # "none" =>
        /\ DefinesGraphics(call.args) =>
                /\ call.status = "ok"
                /\ ~call.mode.is_text_mode
                /\ call.mode.name = _MODES[call.args.adapter][<<call.args.number>>]
        /\ DefinesText(call.args) =>
                /\ call.status = "ok"
                /\ call.mode.is_text_mode
                /\ call.mode.name = _MODES[call.args.adapter][<<0, call.args.width>>]
        /\ ~(DefinesGraphics(call.args) \/ DefinesText(call.args)) =>
                (call.status = "IFC" /\ call.mode = NoMode)
        /\ (call.args.number = 0 /\ call.args.width = 80 /\ call.args.adapter = "cga")
                => call.mode.name = "cgatext80"
        /\ (call.args.number = 1 /\ call.args.adapter = "cga")
                => call.mode.name = "320x200x4"
        /\ (call.args.number = 9 /\ call.args.width = 80 /\ call.args.adapter = "ega")
                => call.mode.name = "640x350x16"
        /\ (call.args.number = 99 /\ call.args.adapter = "mda") => call.status = "IFC"

\* screen 9 on ega with 40 text columns asked for: the width plays no part
C4_Witness ==
    /\ call.args.number = 9
    /\ call.args.width = 40
    /\ call.args.adapter = "ega"
    /\ call.status = "ok"
    /\ ~call.mode.is_text_mode
    /\ call.mode.name = "640x350x16"
    /\ call.mode.width = 80

\* what C10 compares of two descriptors
Compared(m) ==
    << m.name, m.height, m.width, m.pixel_height, m.pixel_width, m.font_height,
       m.font_width, m.bitsperpixel, m.memorymap.max_pages, m.cursor_index >>

\* C10: after any sequence of calls every entry of _MODES, _GRAPHICS_MODES and
\* _TEXT_MODES is as the import left it, and a call with the arguments of a
\* remembered earlier call has the same outcome: the same name, dimensions,
\* font cell size, bit depth, page limit and cursor index, or the same error.
C10_ResolveMemoryless ==
    /\ Imported
    /\ (kept.status # "none" /\ call.args = kept.args) =>
            /\ call.status = kept.status
            /\ Compared(call.mode) = Compared(kept.mode)

\* screen 1 on cga resolved and remembered, one other call made, then screen 1
\* on cga resolved again
C10_Witness ==
    /\ since = 2
    /\ kept.status = "ok"
    /\ kept.args.number = 1
    /\ kept.args.adapter = "cga"
    /\ call.args = kept.args
    /\ call.status = "ok"
    /\ call.mode = kept.mode
    /\ call.mode.name = "320x200x4"

(***************************************************************************)
(* Properties of the WIDTH switch table                                    *)
(***************************************************************************)
\* C11: for every adapter and every non-zero mode number its _MODES defines,
\* TO_WIDTH can be looked up by the number and by the name of the mode, and for
\* every requested width the two lookups give the same outcome, a new mode
\* number for the widths 40 and 80.
C11_NumberAndNameAgree ==
    (tw.bynumber.status # "none" /\ tw.byname.status # "none") =>
        /\ tw.bynumber = tw.byname
        /\ tw.width \in {40, 80} => tw.bynumber.status = "ok"

\* the lookup made last
LastLookup == IF tw.made = "number" THEN tw.bynumber ELSE tw.byname

\* C16: for every adapter, every key of its TO_WIDTH table and every width the
\* key has an entry for, get_mode of the new mode number with that width and
\* adapter returns a mode, and the mode has exactly the requested number of
\* text columns.
C16_SwitchLandsOnWidth ==
    (tw.made # "none" /\ LastLookup.status = "ok") =>
        /\ call.status = "ok"
        /\ call.args.number = LastLookup.target
        /\ call.args.adapter = tw.adapter
        /\ call.mode.width = tw.width

\* WIDTH 80 in screen 1 on cga gives screen 2, which has 80 columns
C16_Witness ==
    /\ tw.adapter = "cga"
    /\ tw.number = 1
    /\ tw.width = 80
    /\ tw.made = "number"
    /\ tw.bynumber = [status |-> "ok", target |-> 2]
    /\ call.status = "ok"
    /\ call.mode.name = "640x200x2"
    /\ call.mode.width = 80

(***************************************************************************)
(* Properties of the low-level mode number                                 *)
(***************************************************************************)
\* C12: get_mode_number returns for every mode and integer colorswitch: 7 for
\* the text modes mdatext80 and ega_monotext80; 2*(columns = 40) + colorswitch
\* mod 2 for every other text mode; 4 + mode_5 for the graphics mode 320x200x4;
\* the value of the table for any other graphics name in it (6, 8, 9, 10, 13,
\* 14, 15, 16, 0x40 or 4); and 0xFF, without raising, for any other name.
C12_ModeNumberCases ==
    enc.status # "none" =>
        /\ enc.status = "ok"
        /\ (call.mode.is_text_mode /\ call.mode.name \in {"mdatext80", "ega_monotext80"})
                => enc.number = 7
        /\ (call.mode.is_text_mode /\ call.mode.name \notin {"mdatext80", "ega_monotext80"})
                => /\ enc.number = (IF call.mode.width = 40 THEN 2 ELSE 0)
                                    + (IF enc.colorswitch % 2 = 0 THEN 0 ELSE 1)
                   /\ enc.number \in 0..3
        /\ (~call.mode.is_text_mode /\ call.mode.name = "320x200x4")
                => enc.number = (IF enc.mode_5 THEN 5 ELSE 4)
        /\ ~call.mode.is_text_mode =>
                /\ call.mode.name = "640x200x2" => enc.number = 6
                /\ call.mode.name = "160x200x16" => enc.number = 8
                /\ call.mode.name = "320x200x16pcjr" => enc.number = 9
                /\ call.mode.name = "640x200x4" => enc.number = 10
                /\ call.mode.name = "320x200x16" => enc.number = 13
                /\ call.mode.name = "640x200x16" => enc.number = 14
                /\ call.mode.name = "640x350x4" => enc.number = 15
                /\ call.mode.name = "640x350x16" => enc.number = 16
                /\ call.mode.name = "640x400x2" => enc.number = 64
                /\ call.mode.name = "320x200x4pcjr" => enc.number = 4
                /\ call.mode.name \notin DOMAIN _MODE_NUMBER => enc.number = 255
        /\ (call.mode.name = "cgatext80" /\ enc.colorswitch = 0) => enc.number = 0
        /\ (call.mode.name = "cgatext40" /\ enc.colorswitch = 1) => enc.number = 3

\* 40-column cga text with a negative odd colorswitch: 2 + 1
C12_Witness ==
    /\ enc.status = "ok"
    /\ call.mode.name = "cgatext40"
    /\ enc.colorswitch = -1
    /\ enc.number = 3

\* C18: over every adapter and every mode number its _MODES defines,
\* get_mode_number of the graphics mode get_mode returns is 0xFF for the
\* hercules mode 720x348x2 and for no other mode.
C18_OnlyHerculesUnknown ==
    (enc.status = "ok" /\ ~call.mode.is_text_mode) =>
        (enc.number = 255 <=> call.mode.name = "720x348x2")

(***************************************************************************)
(* Properties of the area conversions                                      *)
(***************************************************************************)
\* C13: for every mode and every text area with 1 <= row0 <= row1 <= rows and
\* 1 <= col0 <= col1 <= columns, pixel_to_text_area of the four values
\* text_to_pixel_area returns gives back (row0, col0, row1, col1).
C13_AreaRoundTrip ==
    area.step = "text" => area.back = area.text

(***************************************************************************)
(* Properties of stacking and slicing                                      *)
(***************************************************************************)
\* the outcome is a matrix with the _width, _height and rows of the one held
SameAs(m, sl) ==
    /\ m.status = "ok"
    /\ m.width = grids[sl].width
    /\ m.height = grids[sl].height
    /\ m.rows = RowsOf(heap, grids[sl])

\* C15: for matrices A and B of equal height, hstack((A, B)) sliced to the
\* columns [0, A.width) over all rows has the contents of A, and sliced to
\* [A.width, A.width + B.width) those of B; for matrices of equal width the
\* same holds of vstack((A, B)) and the rows [0, A.height) and
\* [A.height, A.height + B.height).
C15_StackThenSlice ==
    (/\ stk.op # "none"
     /\ stk.op = "hstack" => grids[1].height = grids[2].height
     /\ stk.op = "vstack" => grids[1].width = grids[2].width)
    => /\ stk.stacked.status = "ok"
       /\ stk.first.status # "none" => SameAs(stk.first, 1)
       /\ stk.second.status # "none" => SameAs(stk.second, 2)

(***************************************************************************)
(* Properties of construction from a flat sequence                         *)
(***************************************************************************)
\* C14: ByteMatrix(width, height, fill) with fill a flat list of exactly
\* width * height bytes returns, for every width >= 1 and height >= 1, the
\* matrix whose row r (0 <= r < height) is fill[r*width : (r+1)*width].
C14_FlatFillsRows ==
    flat.made.status # "none"
    => /\ flat.made.status = "ok"
       /\ flat.made.width = flat.width
       /\ flat.made.height = flat.height
       /\ flat.made.rows = [r \in 1..flat.height |->
                               SubSeq(flat.fill, (r - 1) * flat.width + 1, r * flat.width)]

(***************************************************************************)
(* Properties of the page limits of the graphics modes                     *)
(***************************************************************************)
\* C17: once the module is imported, the entries '320x200x4' and '640x200x2'
\* of _GRAPHICS_MODES have max_pages 1 and the entries '320x200x4_8pg' and
\* '640x200x2_8pg' have max_pages 8, so that get_mode(1, ...) gives a memory
\* mapper with max_pages 1 on cga and ega and with max_pages 8 on tandy.
C17_PageLimits ==
    /\ dicts[gmodes["320x200x4"]].max_pages = 1
    /\ dicts[gmodes["640x200x2"]].max_pages = 1
    /\ dicts[gmodes["320x200x4_8pg"]].max_pages = 8
    /\ dicts[gmodes["640x200x2_8pg"]].max_pages = 8
    /\ (call.status = "ok" /\ call.args.number = 1 /\ call.args.adapter \in {"cga", "ega"})
            => call.mode.memorymap.max_pages = 1
    /\ (call.status = "ok" /\ call.args.number = 1 /\ call.args.adapter = "tandy")
            => call.mode.memorymap.max_pages = 8

(***************************************************************************)
(* Properties of the video plugin                                          *)
(***************************************************************************)
\* C19: once VIDEO_QUIT has been taken from the video queue, alive is false
\* and stays false, and no signal handler, _work or _check_input is called
\* from then on, neither for signals queued behind the quit signal in the same
\* cycle() nor in a later cycle().
C19_NothingAfterQuit ==
    vid.quit => (~vid.alive /\ vid.after = {})

====
